---- MODULE Spec2Model ----
(***************************************************************************)
(* The in-memory cluster model of eks-node-viewer: pkg/model/cluster.go,   *)
(* pkg/model/node.go, pkg/model/pod.go and the watch handlers of           *)
(* pkg/client/controller.go that drive it.                                 *)
(*                                                                         *)
(* Pods and nodes are Go pointers.  A *Node is reached through the node    *)
(* map, so the node map holds the node objects; the *Node a goroutine      *)
(* holds in the middle of an operation is tracked by thr.  A *Pod can be   *)
(* held by the pod map and by the bound-pod maps of nodes, and Pod.Update  *)
(* overwrites the object in place.  A held                                 *)
(* pointer is modelled as the snapshot of its object and a flag, shared,   *)
(* that says whether it is the pointer the pod map holds: Pod.Update       *)
(* writes through to the shared pointers, and a pointer stops being shared *)
(* when the pod map drops or replaces its own.  An object the pod map no   *)
(* longer holds cannot be reached by any caller, so it never changes.      *)
(*                                                                         *)
(* A v1.ResourceList is modelled as a total function over Resources with 0 *)
(* for a missing entry (a missing entry reads as the zero Quantity).       *)
(***************************************************************************)
EXTENDS Integers, Sequences, FiniteSets, TLC

VARIABLES nodes, pods, ops, thr, rw, fn, claimed, pricing, ui

vars == <<nodes, pods, ops, thr, rw, fn, claimed, pricing, ui>>

----------------------------------------------------------------------------
(* Bounds of the model *)

\* the largest number of containers of a pod (each requests one cpu)
MaxContainers == 2
\* the number of operations applied to the cluster in one run
MaxOps == 3

NodeNames == {"n1", "n2"}
\* the allocatable cpu a node snapshot can have
AllocatableCpus == {1, 2}
ProviderIDs == {"i1", "i2"}
PodKeys == {[namespace |-> "default", name |-> "p1"]}

\* identities a caller can pass to GetNode / DeleteNode
NodeIdentities == NodeNames \cup ProviderIDs

\* the order of Go's string comparison on the names used here
StrRank == [s \in NodeIdentities \cup {""} |->
              CASE s = ""   -> 0
                [] s = "i1" -> 1
                [] s = "i2" -> 2
                [] s = "n1" -> 3
                [] s = "n2" -> 4]

----------------------------------------------------------------------------
(* Values *)

NULL == "null"
\* a float64 is a number or NaN
Float(x) == [nan |-> FALSE, val |-> x]
\* math.NaN(), the unknown price
NaN == [nan |-> TRUE, val |-> 0]
\* a == b on float64: NaN equals nothing, itself included
FEq(a, b) == ~a.nan /\ ~b.nan /\ a.val = b.val

Resources == {"cpu", "pods"}
ZeroResources == [r \in Resources |-> 0]

\* addResources: lhs = lhs + rhs, entry by entry with existing.Add(q)
AddResources(lhs, rhs) == [r \in Resources |-> lhs[r] + rhs[r]]
\* existing.Sub(q) over a whole list
SubResources(lhs, rhs) == [r \in Resources |-> lhs[r] - rhs[r]]

\* float64 addition: NaN is absorbing
FAdd(a, b) == IF a.nan \/ b.nan THEN NaN ELSE Float(a.val + b.val)

PodPending == "Pending"
PodRunning == "Running"
PodSucceeded == "Succeeded"
PodFailed == "Failed"

----------------------------------------------------------------------------
(* pkg/model/pod.go *)

\* The fields of a v1.Pod the model reads: identity, Spec.NodeName,
\* Status.Phase and the cpu request of every container.
PodSnapshots(phases) ==
    [key : PodKeys, nodeName : NodeNames \cup {""}, phase : phases,
     containers : {[i \in 1..c |-> 1] : c \in 1..MaxContainers}]

RECURSIVE SumSeq(_)
SumSeq(q) == IF q = <<>> THEN 0 ELSE Head(q) + SumSeq(Tail(q))

IsScheduled(p) == p.nodeName # ""

\* IsCompleted that forgets the Failed phase
IsCompletedOnlySucceeded(p) == p.phase = PodSucceeded

IsCompleted(p) == p.phase = PodSucceeded \/ p.phase = PodFailed

\* Requested without the unit of the pod-count resource
RequestedContainersOnly(p) == [r \in Resources |->
                                 IF r = "pods" THEN 0 ELSE SumSeq(p.containers)]

\* the sum of the container requests plus one unit of the pod-count resource
Requested(p) == [r \in Resources |->
                   IF r = "pods" THEN 1 ELSE SumSeq(p.containers)]

----------------------------------------------------------------------------
(* pkg/model/node.go *)

\* label sets of a node: none, an on-demand node, a Fargate node, a node
\* with the price override label
NoLabels == {}
OnDemandLabels == {<<"karpenter.sh/capacity-type", "on-demand">>}
FargateLabels == {<<"eks.amazonaws.com/compute-type", "fargate">>}
OverrideLabels == {<<"eks-node-viewer/instance-price", "2">>}
LabelSets == {NoLabels, OnDemandLabels, FargateLabels, OverrideLabels}

\* n.node.Labels[key]: "" for a missing key
Label(labels, key) ==
    IF \E kv \in labels : kv[1] = key
    THEN (CHOOSE kv \in labels : kv[1] = key)[2]
    ELSE ""

\* the provider id of the instance behind a node name
ProviderIDOf == [name \in NodeNames |-> IF name = "n1" THEN "i1" ELSE "i2"]

\* The fields of a v1.Node the cluster model reads, for the Node objects
\* the API server sends: a name and the provider id of the instance.
NodeSnapshots(labelSets) ==
    {s \in [name : NodeNames, providerID : ProviderIDs, created : {1},
            allocatable : AllocatableCpus, labels : labelSets] :
        s.providerID = ProviderIDOf[s.name]}

\* the snapshot AddPod builds for a node it has not seen: only the name
PlaceholderSnapshot(name) ==
    [name |-> name, providerID |-> "", created |-> 0, allocatable |-> 0,
     labels |-> NoLabels]

IsOnDemand(n) ==
    \/ Label(n.node.labels, "karpenter.sh/capacity-type") = "on-demand"
    \/ Label(n.node.labels, "eks.amazonaws.com/capacityType") = "ON_DEMAND"

IsSpot(n) ==
    \/ Label(n.node.labels, "karpenter.sh/capacity-type") = "spot"
    \/ Label(n.node.labels, "eks.amazonaws.com/capacityType") = "SPOT"

IsFargate(n) ==
    Label(n.node.labels, "eks.amazonaws.com/compute-type") = "fargate"

\* IsAuto that accepts every compute type
IsAutoAnyComputeType(n) ==
    Label(n.node.labels, "eks.amazonaws.com/compute-type") # ""

IsAuto(n) ==
    Label(n.node.labels, "eks.amazonaws.com/compute-type") = "auto"

\* an empty Go map
EmptyMap == [k \in {} |-> NULL]

NewNode(n) == [node |-> n, visible |-> FALSE, pods |-> EmptyMap,
               used |-> ZeroResources, Price |-> Float(0)]

\* Update that resets the entity's visibility along with the snapshot
NodeUpdateHides(n, snapshot) == [n EXCEPT !.node = snapshot, !.visible = FALSE]

\* Update that merges: the allocatable quantities are added to the old ones
NodeUpdateMerges(n, snapshot) ==
    [n EXCEPT !.node = [snapshot EXCEPT
                          !.allocatable = @ + n.node.allocatable]]

NodeUpdate(n, snapshot) == [n EXCEPT !.node = snapshot]

NodeName(n) == IF n.node.name = "" THEN n.node.providerID ELSE n.node.name

Hide(n) == [n EXCEPT !.visible = FALSE]

Show(n) == [n EXCEPT !.visible = TRUE]

\* the price is known when it equals itself
HasPrice(n) == FEq(n.Price, n.Price)

\* BindPod without the alreadyBound test: every call adds the requests
BindPodAlwaysAdds(n, pod) ==
    [n EXCEPT !.pods = [k \in DOMAIN n.pods \cup {pod.key} |->
                          IF k = pod.key THEN [pod |-> pod, shared |-> TRUE]
                          ELSE n.pods[k]],
              !.used = AddResources(@, Requested(pod))]

\* n.pods is the bound-pod map: objectKey -> held *Pod.  The pod passed to
\* BindPod is always the one the pod map holds.
BindPod(n, pod) ==
    LET key == pod.key
        alreadyBound == key \in DOMAIN n.pods
        bound == [k \in DOMAIN n.pods \cup {key} |->
                    IF k = key THEN [pod |-> pod, shared |-> TRUE]
                    ELSE n.pods[k]]
    IN [n EXCEPT !.pods = bound,
                 !.used = IF alreadyBound THEN @
                          ELSE AddResources(@, Requested(pod))]

NodeDeletePod(n, key) ==
    IF key \in DOMAIN n.pods
    THEN [n EXCEPT !.used = SubResources(@, Requested(n.pods[key].pod)),
                   !.pods = [k \in DOMAIN n.pods \ {key} |-> n.pods[k]]]
    ELSE n

----------------------------------------------------------------------------
(* Pod pointers *)

\* a cluster value: the node map and the pod map
Cluster(ns, ps) == [nodes |-> ns, pods |-> ps]

\* Pod.Update on the object the pod map holds under key: every shared
\* pointer sees the new snapshot
PodUpdate(c, key, p) ==
    [nodes |-> [n \in DOMAIN c.nodes |->
         [c.nodes[n] EXCEPT !.pods = [k \in DOMAIN c.nodes[n].pods |->
              IF k = key /\ c.nodes[n].pods[k].shared
              THEN [pod |-> p, shared |-> TRUE]
              ELSE c.nodes[n].pods[k]]]],
     pods |-> [c.pods EXCEPT ![key] = p]]

\* the pod map is about to drop or replace its pointer for key: the bound
\* pointers to that object are shared no longer
Unshare(c, key) ==
    [c EXCEPT !.nodes = [n \in DOMAIN c.nodes |->
         [c.nodes[n] EXCEPT !.pods = [k \in DOMAIN c.nodes[n].pods |->
              IF k = key THEN [c.nodes[n].pods[k] EXCEPT !.shared = FALSE]
              ELSE c.nodes[n].pods[k]]]]]

RECURSIVE UnshareAll(_, _)
UnshareAll(c, keys) ==
    IF keys = {} THEN c
    ELSE LET k == CHOOSE x \in keys : TRUE
         IN UnshareAll(Unshare(c, k), keys \ {k})

----------------------------------------------------------------------------
(* pkg/model/cluster.go *)

NewCluster == Cluster(EmptyMap, EmptyMap)

GetNode(c, name) == name \in DOMAIN c.nodes

GetPod(c, key) == key \in DOMAIN c.pods

\* AddNode that installs the new entity over an existing one
AddNodeSubstitutes(c, node) ==
    [c EXCEPT !.nodes = [k \in DOMAIN c.nodes \cup {NodeName(node)} |->
                           IF k = NodeName(node) THEN node ELSE c.nodes[k]]]

\* upsert by Name(): an existing entity keeps everything but its snapshot
AddNode(c, node) ==
    LET name == NodeName(node)
    IN IF name \in DOMAIN c.nodes
       THEN [c EXCEPT !.nodes[name] = NodeUpdate(@, node.node)]
       ELSE [c EXCEPT !.nodes = [k \in DOMAIN c.nodes \cup {name} |->
                                   IF k = name THEN node ELSE c.nodes[k]]]

\* removes the node stored under name and every pod of the pod map whose
\* NodeName() is name
DeleteNode(c, name) ==
    LET podsToDelete == {k \in DOMAIN c.pods : c.pods[k].nodeName = name}
        c1 == UnshareAll(c, podsToDelete)
    IN [nodes |-> [k \in DOMAIN c1.nodes \ {name} |-> c1.nodes[k]],
        pods |-> [k \in DOMAIN c1.pods \ podsToDelete |-> c1.pods[k]]]

\* AddPod(pod); stored says that pod is the object the pod map already holds
\* under its key (the watch updated it in place), otherwise it is a new one
AddPod(c, pod, stored) ==
    LET c0 == IF stored THEN c ELSE Unshare(c, pod.key)
        c1 == [c0 EXCEPT !.pods = [k \in DOMAIN c0.pods \cup {pod.key} |->
                                     IF k = pod.key THEN pod ELSE c0.pods[k]]]
        c2 == IF GetNode(c1, pod.nodeName)
              THEN c1
              ELSE LET c1a == AddNode(c1, NewNode(PlaceholderSnapshot(pod.nodeName)))
                   IN [c1a EXCEPT !.nodes[pod.nodeName] = Hide(@)]
    IN IF ~IsScheduled(pod) \/ IsCompleted(pod)
       THEN c1
       ELSE [c2 EXCEPT !.nodes[pod.nodeName] = BindPod(@, pod)]

\* the totalPods both AddPod and DeletePod return
TotalPods(c) == Cardinality(DOMAIN c.pods)

DeletePod(c, key) ==
    LET c1 == IF GetPod(c, key) /\ IsScheduled(c.pods[key])
                 /\ GetNode(c, c.pods[key].nodeName)
              THEN [c EXCEPT !.nodes[c.pods[key].nodeName] =
                                NodeDeletePod(@, key)]
              ELSE c
        c2 == Unshare(c1, key)
    IN [c2 EXCEPT !.pods = [k \in DOMAIN c2.pods \ {key} |-> c2.pods[k]]]

\* Node.Allocatable(): the snapshot's Status.Allocatable (cpu only here)
Allocatable(n) == [r \in Resources |->
                     IF r = "cpu" THEN n.node.allocatable ELSE 0]

\* Node.Used(): a copy of the usage cache
Used(n) == n.used

\* Node.Created() of a node without a claim creation time
Created(n) == n.node.created

\* the comparison without the tie-break on the name
NodeLessByCreated(c, a, b) == Created(c.nodes[a]) < Created(c.nodes[b])

\* the comparison Stats() sorts its node list with
NodeLess(c, a, b) ==
    IF Created(c.nodes[a]) = Created(c.nodes[b])
    THEN StrRank[NodeName(c.nodes[a])] < StrRank[NodeName(c.nodes[b])]
    ELSE Created(c.nodes[a]) < Created(c.nodes[b])

\* sort.Slice over the set of collected nodes (named by their map key)
RECURSIVE SortNodes(_, _)
SortNodes(c, S) ==
    IF S = {} THEN <<>>
    ELSE LET first == CHOOSE a \in S : \A b \in S \ {a} : ~NodeLess(c, b, a)
         IN <<first>> \o SortNodes(c, S \ {first})

\* the pods the first loop of Stats() counts
CountedPods(c) ==
    {k \in DOMAIN c.pods :
        LET name == c.pods[k].nodeName
        IN ~(name \in DOMAIN c.nodes /\ ~c.nodes[name].visible)}

\* the second loop of Stats() without the Visible() test
AllNodesVisible(c) == DOMAIN c.nodes

\* the nodes the second loop of Stats() does not skip
VisibleNodes(c) == {n \in DOMAIN c.nodes : c.nodes[n].visible}

\* addResources(total, lists[n]) for every node n of S
RECURSIVE SumResources(_, _)
SumResources(lists, S) ==
    IF S = {} THEN ZeroResources
    ELSE LET n == CHOOSE x \in S : TRUE
         IN AddResources(SumResources(lists, S \ {n}), lists[n])

\* st.TotalPrice += n.Price for every node of S
RECURSIVE SumPrice(_, _)
SumPrice(c, S) ==
    IF S = {} THEN Float(0)
    ELSE LET n == CHOOSE x \in S : TRUE
         IN FAdd(SumPrice(c, S \ {n}), c.nodes[n].Price)

Phases == {PodPending, PodRunning, PodSucceeded, PodFailed}

Stats(c) ==
    [TotalPods |-> Cardinality(CountedPods(c)),
     PodsByPhase |-> [ph \in Phases |->
         Cardinality({k \in CountedPods(c) : c.pods[k].phase = ph})],
     BoundPodCount |->
         Cardinality({k \in CountedPods(c) : c.pods[k].nodeName # ""}),
     TotalPrice |-> SumPrice(c, VisibleNodes(c)),
     NumNodes |-> Cardinality(VisibleNodes(c)),
     Nodes |-> SortNodes(c, VisibleNodes(c)),
     AllocatableResources |->
         SumResources([n \in DOMAIN c.nodes |-> Allocatable(c.nodes[n])],
                      VisibleNodes(c)),
     UsedResources |->
         SumResources([n \in DOMAIN c.nodes |-> Used(c.nodes[n])],
                      VisibleNodes(c))]

----------------------------------------------------------------------------
(* pkg/client/controller.go *)

\* pricing.Provider.NodePrice: the provider's tables are outside the model,
\* so what they hold for the node is the input lookup (a price, or NaN for
\* a miss); a node of no known capacity type and a Fargate node without
\* exactly one pod are never priced
NodePrice(n, lookup) ==
    IF IsOnDemand(n) \/ IsSpot(n) THEN lookup
    ELSE IF IsFargate(n) /\ Cardinality(DOMAIN n.pods) = 1 THEN lookup
    ELSE NaN

\* strconv.ParseFloat: the only numeral among the label values is "2"
ParseFloat(val) == IF val = "2" THEN [err |-> FALSE, price |-> Float(2)]
                   ELSE [err |-> TRUE, price |-> Float(0)]

\* Controller.updatePrice
updatePrice(n, lookup) ==
    LET val == Label(n.node.labels, "eks-node-viewer/instance-price")
    IN IF val # "" /\ ~ParseFloat(val).err
       THEN [n EXCEPT !.Price = ParseFloat(val).price]
       ELSE [n EXCEPT !.Price = NodePrice(n, lookup)]

\* isTerminalPod: deleting stands for a non-zero DeletionTimestamp
isTerminalPod(p, deleting) ==
    deleting \/ p.phase = PodSucceeded \/ p.phase = PodFailed

\* Cluster.ForEachNode: the nodes f is called with, visible or not
ForEachNode(c) == DOMAIN c.nodes

\* Cluster.GetNodeByName: the node whose Name() is name, by linear scan
GetNodeByName(c, name) ==
    {k \in DOMAIN c.nodes : NodeName(c.nodes[k]) = name}

\* startNodeWatch AddFunc
NodeAddFunc(c, snapshot, lookup) ==
    LET node == updatePrice(NewNode(snapshot), lookup)
        c1 == AddNode(c, node)
    IN [c1 EXCEPT !.nodes[NodeName(node)] = Show(@)]

\* startNodeWatch UpdateFunc; deleting stands for a non-zero
\* DeletionTimestamp with no finalizers left.  The result is the cluster
\* and whether the handler panicked: when GetNode does not find the node
\* the handler logs and goes on to node.Show() with node == nil, and
\* Show() locks the mutex of the nil *Node.
NodeUpdateFunc(c, snapshot, deleting, lookup) ==
    IF deleting
    THEN [cluster |-> DeleteNode(c, snapshot.providerID), panics |-> FALSE]
    ELSE IF ~GetNode(c, snapshot.providerID)
         THEN [cluster |-> c, panics |-> TRUE]
         ELSE [cluster |->
                  [c EXCEPT !.nodes[snapshot.providerID] =
                      Show(updatePrice(NodeUpdate(@, snapshot), lookup))],
               panics |-> FALSE]

\* startPodWatch AddFunc
PodAddFunc(c, p, deleting, lookup) ==
    IF isTerminalPod(p, deleting) THEN c
    ELSE LET c1 == AddPod(c, p, FALSE)
             found == GetNodeByName(c1, p.nodeName)
         IN IF found # {}
            THEN LET k == CHOOSE x \in found : TRUE
                 IN IF IsFargate(c1.nodes[k]) /\ ~HasPrice(c1.nodes[k])
                    THEN [c1 EXCEPT !.nodes[k] = updatePrice(@, lookup)]
                    ELSE c1
            ELSE c1

\* startPodWatch UpdateFunc
PodUpdateFunc(c, p, deleting) ==
    IF isTerminalPod(p, deleting) THEN DeletePod(c, p.key)
    ELSE IF ~GetPod(c, p.key)
         THEN AddPod(c, p, FALSE)
         ELSE AddPod(PodUpdate(c, p.key, p), p, TRUE)

----------------------------------------------------------------------------
(* The state machine *)

TheCluster == Cluster(nodes, pods)

\* what the price tables of the provider can answer for one node
Lookups == {NaN, Float(1)}

\* the inputs of the notifications
NodeInputs == NodeSnapshots({OnDemandLabels})
PodInputs == PodSnapshots({PodRunning, PodFailed})

\* the goroutines of the watches before any handler runs: the pod watch
\* holds no *Node (n is "nil"), and later the one the node map stores
\* ("stored") or one DeleteNode has taken out of the node map ("removed")
IdleThreads == [pod |-> [pc |-> "idle", n |-> "nil"], node |-> [pc |-> "idle"]]

\* the goroutines that call the accessors of one Pod and one Node: each is
\* outside any call (op "idle") or at instruction i of the call op
Goroutines == {"g1", "g2", "g3"}

\* the sync.RWMutex of the Pod, the Node and the Cluster, unlocked, and no
\* call begun:
\* readers counts the read locks each goroutine holds, writer is the
\* goroutine that has announced itself in Lock() and not yet unlocked
FreeLocks ==
    [call |-> [g \in Goroutines |-> [op |-> "idle", i |-> 1]],
     mu |-> [m \in {"Pod", "Node", "Cluster"} |->
               [readers |-> [g \in Goroutines |-> 0], writer |-> "none"]]]

\* no call of a pure function is recorded
NoCall == [op |-> "none", arg |-> NULL, ret |-> NULL, done |-> FALSE]

\* the node map of the NodeClaim watch and the node watch, empty
NoClaimedNodes == EmptyMap

\* the number of callbacks the program registers with OnUpdate
MaxCallbacks == 2
\* the number of update cycles of the pricing goroutine in one run
MaxCycles == 2

\* the three fetches of one update cycle
Fetches == {"onDemand", "spot", "fargate"}

\* the on-demand price table getStaticPrices returns
StaticPrices == [t \in {"m5.large"} |-> 9]

\* the pricing provider NewPricingProvider returns, its goroutine created
\* and at its first statement (pc).  onUpdateFuncs is the callback list and
\* reg says whether a caller is inside OnUpdate, between its read and its
\* write of the list; over is the list the loop of updatePricing ranges
\* over and i its index; timer is the channel of time.After being ready.
\* atStart (the list when the cycle began), calls (the calls of each
\* callback in the cycle) and cycles (the cycles begun) record the run.
NewPricingProvider ==
    [pc |-> "start",
     fetch |-> [f \in Fetches |-> "idle"],
     onDemandPrices |-> StaticPrices,
     onUpdateFuncs |-> <<>>, reg |-> "idle",
     over |-> <<>>, i |-> 1,
     cancelled |-> FALSE, timer |-> FALSE,
     atStart |-> <<>>, calls |-> [f \in 1..MaxCallbacks |-> 0], cycles |-> 0]

\* the UIModel NewUIModel returns, with the paginator of paginator.New()
\* (Page 0, PerPage 1, TotalPages 1) and an empty cluster.  numNodes is the
\* number of visible nodes of the cluster, selected the index in the node
\* list of the node Enter selected (-1 for none), and panicked says that
\* Enter indexed outside the node list.
NewUIModel ==
    [height |-> 0, Page |-> 0, PerPage |-> 1, TotalPages |-> 1,
     cursor |-> 0, start |-> 0, end |-> 0,
     numNodes |-> 0, selected |-> -1, panicked |-> FALSE]

\* the parts of the state that belong to the node watches, the pricing
\* provider and the UIModel, before any of them has run
IdleRest ==
    /\ claimed = NoClaimedNodes
    /\ pricing = NewPricingProvider
    /\ ui = NewUIModel

Init ==
    /\ nodes = NewCluster.nodes
    /\ pods = NewCluster.pods
    /\ ops = 0
    /\ thr = IdleThreads
    /\ rw = FreeLocks
    /\ fn = NoCall
    /\ IdleRest

\* a caller builds a node, prices it, may Show() it, and adds it
DoAddNode ==
    \E snapshot \in NodeInputs, shown \in BOOLEAN, lookup \in Lookups :
        LET node == updatePrice(NewNode(snapshot), lookup)
            c == AddNode(TheCluster, IF shown THEN Show(node) ELSE node)
        IN /\ ops < MaxOps
           /\ nodes' = c.nodes /\ pods' = c.pods /\ ops' = ops + 1
           /\ UNCHANGED <<thr, rw, fn, claimed, pricing, ui>>

DoDeleteNode ==
    \E name \in NodeIdentities :
        LET c == DeleteNode(TheCluster, name)
        IN /\ ops < MaxOps
           /\ nodes' = c.nodes /\ pods' = c.pods /\ ops' = ops + 1
           /\ UNCHANGED <<thr, rw, fn, claimed, pricing, ui>>

\* a caller adds a new pod object
DoAddPod ==
    \E p \in PodInputs :
        LET c == AddPod(TheCluster, p, FALSE)
        IN /\ ops < MaxOps
           /\ nodes' = c.nodes /\ pods' = c.pods /\ ops' = ops + 1
           /\ UNCHANGED <<thr, rw, fn, claimed, pricing, ui>>

\* the caller is a test or the DeleteFunc of the pod watch
DoDeletePod ==
    \E key \in PodKeys :
        LET c == DeletePod(TheCluster, key)
        IN /\ ops < MaxOps
           /\ nodes' = c.nodes /\ pods' = c.pods /\ ops' = ops + 1
           /\ UNCHANGED <<thr, rw, fn, claimed, pricing, ui>>

\* Show() on the entity AddNode or GetNode returned
DoShow ==
    \E name \in DOMAIN nodes :
        LET c == [TheCluster EXCEPT !.nodes[name] = Show(@)]
        IN /\ ops < MaxOps
           /\ nodes' = c.nodes /\ pods' = c.pods /\ ops' = ops + 1
           /\ UNCHANGED <<thr, rw, fn, claimed, pricing, ui>>

DoNodeAddFunc ==
    \E snapshot \in NodeInputs, lookup \in Lookups :
        LET c == NodeAddFunc(TheCluster, snapshot, lookup)
        IN /\ ops < MaxOps
           /\ nodes' = c.nodes /\ pods' = c.pods /\ ops' = ops + 1
           /\ UNCHANGED <<thr, rw, fn, claimed, pricing, ui>>

DoPodAddFunc ==
    \E p \in PodInputs, deleting \in BOOLEAN, lookup \in Lookups :
        LET c == PodAddFunc(TheCluster, p, deleting, lookup)
        IN /\ ops < MaxOps
           /\ nodes' = c.nodes /\ pods' = c.pods /\ ops' = ops + 1
           /\ UNCHANGED <<thr, rw, fn, claimed, pricing, ui>>

DoPodUpdateFunc ==
    \E p \in PodInputs, deleting \in BOOLEAN :
        LET c == PodUpdateFunc(TheCluster, p, deleting)
        IN /\ ops < MaxOps
           /\ nodes' = c.nodes /\ pods' = c.pods /\ ops' = ops + 1
           /\ UNCHANGED <<thr, rw, fn, claimed, pricing, ui>>

Next ==
    \/ DoAddNode
    \/ DoDeleteNode
    \/ DoAddPod
    \/ DoDeletePod
    \/ DoShow
    \/ DoNodeAddFunc
    \/ DoPodAddFunc
    \/ DoPodUpdateFunc

Spec == Init /\ [][Next]_vars

----------------------------------------------------------------------------
(* The operations of pkg/model/cluster.go run by concurrent goroutines.    *)
(* One goroutine runs the pod operations, another the node operations, as  *)
(* the two watches of the controller do; Stats() can run between any two   *)
(* steps.  A step is what one goroutine does while it holds c.mu or the    *)
(* mutex of one node: between two steps of an operation no lock is held,   *)
(* so the steps of the other goroutine can fall there.                     *)

\* the node and the pod the concurrent operations are called with
ConcNode == [name |-> "n1", providerID |-> "i1", created |-> 1,
             allocatable |-> 1, labels |-> OnDemandLabels]
ConcPod == [key |-> [namespace |-> "default", name |-> "p1"],
            nodeName |-> "n1", phase |-> PodRunning, containers |-> <<1>>]

\* a method called on the *Node the pod goroutine holds: it changes the
\* node map when that object is still stored there, otherwise it changes an
\* object nothing else reaches
OnHeldNode(c, changed) ==
    IF thr.pod.n = "stored" /\ ConcPod.nodeName \in DOMAIN c.nodes
    THEN [c EXCEPT !.nodes[ConcPod.nodeName] = changed]
    ELSE c

\* AddPod, first critical section: the pod enters the pod map; the pod is
\* scheduled and not completed, so the call goes on to GetNode
AddPodInsert ==
    LET c0 == Unshare(TheCluster, ConcPod.key)
        c == [c0 EXCEPT !.pods = [k \in DOMAIN c0.pods \cup {ConcPod.key} |->
                                    IF k = ConcPod.key THEN ConcPod
                                    ELSE c0.pods[k]]]
    IN /\ thr.pod.pc = "idle" /\ ops < MaxOps
       /\ IsScheduled(ConcPod) /\ ~IsCompleted(ConcPod)
       /\ nodes' = c.nodes /\ pods' = c.pods /\ ops' = ops + 1
       /\ thr' = [thr EXCEPT !.pod.pc = "AddPod.GetNode"]
       /\ UNCHANGED <<rw, fn, claimed, pricing, ui>>

\* AddPod: n, ok := c.GetNode(pod.NodeName())
AddPodGetNode ==
    /\ thr.pod.pc = "AddPod.GetNode"
    /\ thr' = IF GetNode(TheCluster, ConcPod.nodeName)
              THEN [thr EXCEPT !.pod = [pc |-> "AddPod.BindPod", n |-> "stored"]]
              ELSE [thr EXCEPT !.pod.pc = "AddPod.AddNode"]
    /\ UNCHANGED <<nodes, pods, ops, rw, fn, claimed, pricing, ui>>

\* AddPod: n = c.AddNode(NewNode(placeholder)); AddNode returns the entity
\* the node map stores
AddPodAddNode ==
    LET c == AddNode(TheCluster, NewNode(PlaceholderSnapshot(ConcPod.nodeName)))
    IN /\ thr.pod.pc = "AddPod.AddNode"
       /\ nodes' = c.nodes /\ pods' = c.pods
       /\ thr' = [thr EXCEPT !.pod = [pc |-> "AddPod.Hide", n |-> "stored"]]
       /\ UNCHANGED <<ops, rw, fn, claimed, pricing, ui>>

\* AddPod: n.Hide()
AddPodHide ==
    LET c == OnHeldNode(TheCluster, Hide(nodes[ConcPod.nodeName]))
    IN /\ thr.pod.pc = "AddPod.Hide"
       /\ nodes' = c.nodes /\ pods' = c.pods
       /\ thr' = [thr EXCEPT !.pod.pc = "AddPod.BindPod"]
       /\ UNCHANGED <<ops, rw, fn, claimed, pricing, ui>>

\* AddPod: n.BindPod(pod), and the return.  The pointer the node now holds
\* is the pod map's only if the pod map still has the pod.
AddPodBindPod ==
    LET c1 == OnHeldNode(TheCluster, BindPod(nodes[ConcPod.nodeName], ConcPod))
        c == IF GetPod(c1, ConcPod.key) THEN c1 ELSE Unshare(c1, ConcPod.key)
    IN /\ thr.pod.pc = "AddPod.BindPod"
       /\ nodes' = c.nodes /\ pods' = c.pods
       /\ thr' = [thr EXCEPT !.pod = [pc |-> "idle", n |-> "nil"]]
       /\ UNCHANGED <<ops, rw, fn, claimed, pricing, ui>>

\* DeletePod: GetPod, IsScheduled and GetNode
DeletePodGetNode ==
    /\ thr.pod.pc = "idle" /\ ops < MaxOps
    /\ thr' = IF /\ GetPod(TheCluster, ConcPod.key)
                 /\ IsScheduled(pods[ConcPod.key])
                 /\ GetNode(TheCluster, pods[ConcPod.key].nodeName)
              THEN [thr EXCEPT !.pod = [pc |-> "DeletePod.DeletePod",
                                        n |-> "stored"]]
              ELSE [thr EXCEPT !.pod.pc = "DeletePod.delete"]
    /\ ops' = ops + 1
    /\ UNCHANGED <<nodes, pods, rw, fn, claimed, pricing, ui>>

\* DeletePod: n.DeletePod(namespace, name)
DeletePodUnbind ==
    LET c == OnHeldNode(TheCluster,
                        NodeDeletePod(nodes[ConcPod.nodeName], ConcPod.key))
    IN /\ thr.pod.pc = "DeletePod.DeletePod"
       /\ nodes' = c.nodes /\ pods' = c.pods
       /\ thr' = [thr EXCEPT !.pod.pc = "DeletePod.delete"]
       /\ UNCHANGED <<ops, rw, fn, claimed, pricing, ui>>

\* DeletePod, last critical section: delete(c.pods, key), and the return
DeletePodDelete ==
    LET c1 == Unshare(TheCluster, ConcPod.key)
        c == [c1 EXCEPT !.pods = [k \in DOMAIN c1.pods \ {ConcPod.key} |->
                                    c1.pods[k]]]
    IN /\ thr.pod.pc = "DeletePod.delete"
       /\ nodes' = c.nodes /\ pods' = c.pods
       /\ thr' = [thr EXCEPT !.pod = [pc |-> "idle", n |-> "nil"]]
       /\ UNCHANGED <<ops, rw, fn, claimed, pricing, ui>>

\* the AddFunc of the node watch: NewNode, updatePrice and cluster.AddNode
NodeAddFuncAddNode ==
    \E lookup \in Lookups :
        LET c == AddNode(TheCluster, updatePrice(NewNode(ConcNode), lookup))
        IN /\ thr.node.pc = "idle" /\ ops < MaxOps
           /\ nodes' = c.nodes /\ pods' = c.pods /\ ops' = ops + 1
           /\ thr' = [thr EXCEPT !.node.pc = "AddFunc.Show"]
           /\ UNCHANGED <<rw, fn, claimed, pricing, ui>>

\* the AddFunc of the node watch: n.Show() on the entity AddNode returned,
\* which only this goroutine can have deleted
NodeAddFuncShow ==
    LET c == [TheCluster EXCEPT !.nodes[ConcNode.name] = Show(@)]
    IN /\ thr.node.pc = "AddFunc.Show"
       /\ nodes' = c.nodes /\ pods' = c.pods
       /\ thr' = [thr EXCEPT !.node.pc = "idle"]
       /\ UNCHANGED <<ops, rw, fn, claimed, pricing, ui>>

\* DeleteNode holds c.mu from its first statement to its return: one step.
\* A *Node the pod goroutine holds is from now on out of the node map.
ConcDeleteNode ==
    LET c == DeleteNode(TheCluster, ConcNode.name)
    IN /\ thr.node.pc = "idle" /\ ops < MaxOps
       /\ nodes' = c.nodes /\ pods' = c.pods /\ ops' = ops + 1
       /\ thr' = IF thr.pod.n = "stored" /\ GetNode(TheCluster, ConcNode.name)
                 THEN [thr EXCEPT !.pod.n = "removed"]
                 ELSE thr
       /\ UNCHANGED <<rw, fn, claimed, pricing, ui>>

NextConc ==
    \/ AddPodInsert
    \/ AddPodGetNode
    \/ AddPodAddNode
    \/ AddPodHide
    \/ AddPodBindPod
    \/ DeletePodGetNode
    \/ DeletePodUnbind
    \/ DeletePodDelete
    \/ NodeAddFuncAddNode
    \/ NodeAddFuncShow
    \/ ConcDeleteNode

SpecConc == Init /\ [][NextConc]_vars

----------------------------------------------------------------------------
(* The mutexes of one Pod and one Node under concurrent callers.  A        *)
(* sync.RWMutex makes a new reader wait as soon as a writer has called     *)
(* Lock(), also while that writer still waits for the readers that hold    *)
(* the lock; the writers wait for each other before they announce.         *)

\* the lock instructions of the methods, in program order.  IsCompleted
\* calls Phase() twice when the phase is not Succeeded; Name() of a node
\* without a name calls InstanceID(), which calls ProviderID().  For the
\* methods of the Cluster the reads and writes of its two maps are
\* instructions too: the first critical section of AddPod, DeleteNode with
\* the NodeName() it calls on a pod, and DeletePod for a pod that is not
\* scheduled, whose first instruction is the map lookup of GetPod.  For the
\* Node the write of the snapshot by Update, the write of the bound-pod map
\* and the usage total by BindPod, the read of the labels by IsOnDemand and
\* the read of the bound-pod map by Pods are instructions.
Program ==
    [IsCompleted |-> <<[do |-> "RLock", mu |-> "Pod"],
                       [do |-> "RLock", mu |-> "Pod"],
                       [do |-> "RUnlock", mu |-> "Pod"],
                       [do |-> "RLock", mu |-> "Pod"],
                       [do |-> "RUnlock", mu |-> "Pod"],
                       [do |-> "RUnlock", mu |-> "Pod"]>>,
     Phase |-> <<[do |-> "RLock", mu |-> "Pod"],
                 [do |-> "RUnlock", mu |-> "Pod"]>>,
     PodUpdate |-> <<[do |-> "Lock", mu |-> "Pod"],
                     [do |-> "Unlock", mu |-> "Pod"]>>,
     Name |-> <<[do |-> "RLock", mu |-> "Node"],
                [do |-> "RLock", mu |-> "Node"],
                [do |-> "RUnlock", mu |-> "Node"],
                [do |-> "RUnlock", mu |-> "Node"]>>,
     NodeUpdate |-> <<[do |-> "Lock", mu |-> "Node"],
                      [do |-> "write", mu |-> "Node"],
                      [do |-> "Unlock", mu |-> "Node"]>>,
     BindPod |-> <<[do |-> "Lock", mu |-> "Node"],
                   [do |-> "write", mu |-> "Node"],
                   [do |-> "Unlock", mu |-> "Node"]>>,
     IsOnDemand |-> <<[do |-> "read", mu |-> "Node"]>>,
     Pods |-> <<[do |-> "read", mu |-> "Node"]>>,
     GetNode |-> <<[do |-> "RLock", mu |-> "Cluster"],
                   [do |-> "read", mu |-> "Cluster"],
                   [do |-> "RUnlock", mu |-> "Cluster"]>>,
     AddPod |-> <<[do |-> "Lock", mu |-> "Cluster"],
                  [do |-> "write", mu |-> "Cluster"],
                  [do |-> "Unlock", mu |-> "Cluster"]>>,
     DeleteNode |-> <<[do |-> "Lock", mu |-> "Cluster"],
                      [do |-> "write", mu |-> "Cluster"],
                      [do |-> "read", mu |-> "Cluster"],
                      [do |-> "RLock", mu |-> "Pod"],
                      [do |-> "RUnlock", mu |-> "Pod"],
                      [do |-> "write", mu |-> "Cluster"],
                      [do |-> "Unlock", mu |-> "Cluster"]>>,
     DeletePod |-> <<[do |-> "read", mu |-> "Cluster"],
                     [do |-> "Lock", mu |-> "Cluster"],
                     [do |-> "write", mu |-> "Cluster"],
                     [do |-> "Unlock", mu |-> "Cluster"]>>]

\* goroutine g is inside a call
InCall(g) == rw.call[g].op # "idle"

\* the instruction goroutine g is at
Instr(g) == Program[rw.call[g].op][rw.call[g].i]

\* g has executed its instruction: the next one, or the return after the last
Advance(g) ==
    IF rw.call[g].i = Len(Program[rw.call[g].op])
    THEN [op |-> "idle", i |-> 1]
    ELSE [rw.call[g] EXCEPT !.i = @ + 1]

\* a goroutine calls one of the methods
Call(g) ==
    \E op \in DOMAIN Program :
        /\ ~InCall(g)
        /\ rw' = [rw EXCEPT !.call[g] = [op |-> op, i |-> 1]]
        /\ UNCHANGED <<nodes, pods, ops, thr, fn, claimed, pricing, ui>>

\* mu.RLock(): granted unless a writer has announced itself
RLock(g) ==
    /\ InCall(g) /\ Instr(g).do = "RLock"
    /\ rw.mu[Instr(g).mu].writer = "none"
    /\ rw' = [rw EXCEPT !.mu[Instr(g).mu].readers[g] = @ + 1,
                        !.call[g] = Advance(g)]
    /\ UNCHANGED <<nodes, pods, ops, thr, fn, claimed, pricing, ui>>

\* mu.RUnlock()
RUnlock(g) ==
    /\ InCall(g) /\ Instr(g).do = "RUnlock"
    /\ rw' = [rw EXCEPT !.mu[Instr(g).mu].readers[g] = @ - 1,
                        !.call[g] = Advance(g)]
    /\ UNCHANGED <<nodes, pods, ops, thr, fn, claimed, pricing, ui>>

\* mu.Lock(), first half: the writer announces itself once no other writer
\* has, and new readers wait from now on
LockAnnounce(g) ==
    /\ InCall(g) /\ Instr(g).do = "Lock"
    /\ rw.mu[Instr(g).mu].writer = "none"
    /\ rw' = [rw EXCEPT !.mu[Instr(g).mu].writer = g]
    /\ UNCHANGED <<nodes, pods, ops, thr, fn, claimed, pricing, ui>>

\* mu.Lock(), second half: the announced writer gets the lock when the
\* readers have all left
LockAcquire(g) ==
    /\ InCall(g) /\ Instr(g).do = "Lock"
    /\ rw.mu[Instr(g).mu].writer = g
    /\ \A h \in Goroutines : rw.mu[Instr(g).mu].readers[h] = 0
    /\ rw' = [rw EXCEPT !.call[g] = Advance(g)]
    /\ UNCHANGED <<nodes, pods, ops, thr, fn, claimed, pricing, ui>>

\* mu.Unlock()
Unlock(g) ==
    /\ InCall(g) /\ Instr(g).do = "Unlock"
    /\ rw' = [rw EXCEPT !.mu[Instr(g).mu].writer = "none",
                        !.call[g] = Advance(g)]
    /\ UNCHANGED <<nodes, pods, ops, thr, fn, claimed, pricing, ui>>

\* a read or a write of a map of the Cluster or of a field of the Node
Access(g) ==
    /\ InCall(g) /\ Instr(g).do \in {"read", "write"}
    /\ rw' = [rw EXCEPT !.call[g] = Advance(g)]
    /\ UNCHANGED <<nodes, pods, ops, thr, fn, claimed, pricing, ui>>

\* the next instruction of the call g is in
Step(g) ==
    \/ RLock(g)
    \/ RUnlock(g)
    \/ LockAnnounce(g)
    \/ LockAcquire(g)
    \/ Unlock(g)
    \/ Access(g)

NextLocks == \E g \in Goroutines : Call(g) \/ Step(g)

SpecLocks == Init /\ [][NextLocks]_vars

----------------------------------------------------------------------------
(* The pure functions of the model package.  fn records one call: the      *)
(* function, its argument, and, once the call is done, what it returned.   *)
(* A string a function parses is a sequence of its characters.             *)

\* the cluster part of the state, which no call of a pure function touches
IdleCluster ==
    /\ nodes = NewCluster.nodes
    /\ pods = NewCluster.pods
    /\ ops = 0
    /\ thr = IdleThreads
    /\ rw = FreeLocks

\* a call of function op with argument arg that has not run yet
Pending(op, arg) == [op |-> op, arg |-> arg, ret |-> NULL, done |-> FALSE]

Digits == {"0", "1", "2", "5"}
DigitVal == [d \in Digits |-> CASE d = "0" -> 0 [] d = "1" -> 1
                                [] d = "2" -> 2 [] d = "5" -> 5]

\* a decimal number: num / 10^scale
Dec(num, scale) == [num |-> num, scale |-> scale]

RECURSIVE Pow10(_)
Pow10(k) == IF k = 0 THEN 1 ELSE 10 * Pow10(k - 1)

\* a == b on two decimals
DecEq(a, b) == a.num * Pow10(b.scale) = b.num * Pow10(a.scale)

\* the digits of t read as a number, the "." left out
RECURSIVE DigitsValue(_)
DigitsValue(t) ==
    IF t = <<>> THEN 0
    ELSE LET front == SubSeq(t, 1, Len(t) - 1)
             last == t[Len(t)]
         IN IF last = "." THEN DigitsValue(front)
            ELSE 10 * DigitsValue(front) + DigitVal[last]

\* strconv.ParseFloat(t, 64) on the strings used here: digits with at most
\* one "." and at least one digit are a number, anything else an error
ParseFloatChars(t) ==
    LET dots == {i \in 1..Len(t) : t[i] = "."}
        ok == /\ \A i \in 1..Len(t) : t[i] \in Digits \cup {"."}
              /\ Cardinality(dots) <= 1
              /\ Cardinality(dots) < Len(t)
    IN IF ~ok THEN [err |-> TRUE, val |-> Dec(0, 0)]
       ELSE [err |-> FALSE,
             val |-> Dec(DigitsValue(t),
                         IF dots = {} THEN 0
                         ELSE Len(t) - (CHOOSE i \in dots : TRUE))]

VCPU == <<"v", "C", "P", "U", " ">>
GB == <<"G", "B">>

\* the literal lit stands in s at position p
HasAt(s, p, lit) ==
    /\ p >= 1 /\ p + Len(lit) - 1 <= Len(s)
    /\ SubSeq(s, p, p + Len(lit) - 1) = lit

\* fargateCapacityRe.FindStringSubmatch(s) for "(.*?)vCPU (.*?)GB": both
\* groups are lazy, so the match starts at the first character, the first
\* group ends at the first "vCPU " that has a "GB" behind it and the second
\* at the first such "GB"; nil (the empty sequence) when nothing matches
FindStringSubmatch(s) ==
    LET Ends(p) == {q \in (p + Len(VCPU))..Len(s) : HasAt(s, q, GB)}
        starts == {p \in 1..Len(s) : HasAt(s, p, VCPU) /\ Ends(p) # {}}
    IN IF starts = {} THEN <<>>
       ELSE LET p == CHOOSE x \in starts : \A y \in starts : x <= y
                q == CHOOSE x \in Ends(p) : \A y \in Ends(p) : x <= y
            IN <<SubSeq(s, 1, q + Len(GB) - 1),
                 SubSeq(s, 1, p - 1),
                 SubSeq(s, p + Len(VCPU), q - 1)>>

\* what a call leaves behind when it panics
Panic == [panics |-> TRUE]

\* Pod.FargateCapacityProvisioned: a is the CapacityProvisioned annotation,
\* present or not.  A value the expression does not match is logged, and
\* the function goes on to match[1] of the nil slice: index out of range.
FargateCapacityProvisioned(a) ==
    LET none == [panics |-> FALSE, cpu |-> Dec(0, 0), mem |-> Dec(0, 0),
                 found |-> FALSE]
        match == FindStringSubmatch(a.value)
        cpu == ParseFloatChars(match[2])
        mem == ParseFloatChars(match[3])
    IN IF ~a.present THEN none
       ELSE IF Len(match) # 3 THEN Panic
       ELSE IF cpu.err THEN none
       ELSE IF mem.err THEN none
       ELSE [panics |-> FALSE, cpu |-> cpu.val, mem |-> mem.val,
             found |-> TRUE]

\* "0.25vCPU 0.5GB", the annotation of TestFargateCapacity
QuarterHalf == <<"0", ".", "2", "5">> \o VCPU \o <<"0", ".", "5">> \o GB

\* the CapacityProvisioned annotations the function is called with
Annotations ==
    {[present |-> FALSE, value |-> <<>>]} \cup
    {[present |-> TRUE, value |-> v] : v \in
        {QuarterHalf,
         <<"2">> \o VCPU \o <<"5">> \o GB,
         <<"1">> \o VCPU \o <<"2">> \o GB \o <<" ">>,
         <<"x">> \o VCPU \o <<"5">> \o GB,
         <<"2">> \o VCPU \o <<"x">> \o GB,
         <<"2", ".", ".", "5">> \o VCPU \o <<"5">> \o GB,
         <<"2">> \o VCPU,
         <<"2", "v", "C", "P", "U">> \o <<"5">> \o GB,
         <<"5">> \o GB,
         <<>>}}

\* the keys Name() can give: a node name, or the provider id of a node
\* without a name
SortKeys == NodeIdentities
\* the largest number of nodes in a node list that is sorted
MaxSorted == 3
\* the creation times of the nodes that are sorted
CreationTimes == {1, 2}

\* the v1.Node whose Name() is k, created at t
KeyedSnapshot(k, t) ==
    IF k \in NodeNames
    THEN [name |-> k, providerID |-> ProviderIDOf[k], created |-> t,
          allocatable |-> 1, labels |-> NoLabels]
    ELSE [name |-> "", providerID |-> k, created |-> t,
          allocatable |-> 1, labels |-> NoLabels]

\* the node maps over at most MaxSorted keys: any creation times, visible
\* or hidden nodes, no pods
NodeMaps ==
    UNION {[K -> [created : CreationTimes, visible : BOOLEAN]] :
              K \in {K \in SUBSET SortKeys : Cardinality(K) <= MaxSorted}}

NodeMapOf(m) ==
    [k \in DOMAIN m |->
        [NewNode(KeyedSnapshot(k, m[k].created)) EXCEPT
            !.visible = m[k].visible]]

\* the orders in which range can go over a map with the keys K
IterationOrders(K) ==
    {o \in [1..Cardinality(K) -> K] :
        \A i, j \in 1..Cardinality(K) : i # j => o[i] # o[j]}

\* the elements of q that are in S, in the order of q
RECURSIVE Filter(_, _)
Filter(q, S) ==
    IF q = <<>> THEN <<>>
    ELSE IF Head(q) \in S THEN <<Head(q)>> \o Filter(Tail(q), S)
    ELSE Filter(Tail(q), S)

Swap(q, i, j) == [q EXCEPT ![i] = q[j], ![j] = q[i]]

\* the inner loop of the insertion sort: for j > 1 && less(j, j-1) swap
RECURSIVE SinkLeft(_, _, _)
SinkLeft(c, q, j) ==
    IF j > 1 /\ NodeLess(c, q[j], q[j - 1])
    THEN SinkLeft(c, Swap(q, j, j - 1), j - 1)
    ELSE q

\* sort.Slice on a slice this short is an insertion sort from position i on
RECURSIVE InsertionSort(_, _, _)
InsertionSort(c, q, i) ==
    IF i > Len(q) THEN q
    ELSE InsertionSort(c, SinkLeft(c, q, i), i + 1)

\* st.Nodes of Stats() when range goes over c.nodes in the given order
StatsNodes(c, order) ==
    InsertionSort(c, Filter(order, VisibleNodes(c)), 2)

CallStats ==
    /\ fn.op = "Stats" /\ ~fn.done
    /\ fn' = [fn EXCEPT
                !.ret = StatsNodes(Cluster(NodeMapOf(fn.arg.nodes), EmptyMap),
                                   fn.arg.order),
                !.done = TRUE]
    /\ UNCHANGED <<nodes, pods, ops, thr, rw, claimed, pricing, ui>>

\* the values a node can have under each label the predicates read, ""
\* standing for a node without the label, and under one other label
LabelValues ==
    [k \in {"karpenter.sh/capacity-type", "eks.amazonaws.com/capacityType",
            "eks.amazonaws.com/compute-type", "kubernetes.io/os"} |->
        CASE k = "karpenter.sh/capacity-type" ->
                 {"", "on-demand", "spot", "reserved"}
          [] k = "eks.amazonaws.com/capacityType" ->
                 {"", "ON_DEMAND", "SPOT"}
          [] k = "eks.amazonaws.com/compute-type" ->
                 {"", "fargate", "auto"}
          [] k = "kubernetes.io/os" -> {"", "linux"}]

\* the label maps of the nodes the predicates are called on
LabelMaps ==
    {{<<k, f[k]>> : k \in {k \in DOMAIN LabelValues : f[k] # ""}} :
        f \in {f \in [DOMAIN LabelValues ->
                        UNION {LabelValues[k] : k \in DOMAIN LabelValues}] :
                  \A k \in DOMAIN LabelValues : f[k] \in LabelValues[k]}}

\* IsOnDemand, IsSpot, IsFargate and IsAuto of the node with the labels
CapacityTypes(labels) ==
    LET n == NewNode([PlaceholderSnapshot("n1") EXCEPT !.labels = labels])
    IN [IsOnDemand |-> IsOnDemand(n), IsSpot |-> IsSpot(n),
        IsFargate |-> IsFargate(n), IsAuto |-> IsAuto(n)]

CallCapacityTypes ==
    /\ fn.op = "CapacityTypes" /\ ~fn.done
    /\ fn' = [fn EXCEPT !.ret = CapacityTypes(fn.arg), !.done = TRUE]
    /\ UNCHANGED <<nodes, pods, ops, thr, rw, claimed, pricing, ui>>

\* the zero time.Time
ZeroTime == 0
\* the creation time of the nodes NotReadyTime is called on
CreatedAt == 1
\* a last-transition time
TransitionAt == 3
\* a NodeClaim creation time
ClaimCreatedAt == 5

\* the conditions a node status can list
Conditions ==
    [type : {"Ready", "MemoryPressure"}, status : {"True", "False", "Unknown"},
     lastTransitionTime : {ZeroTime, TransitionAt}]

\* the nodes NotReadyTime is called on: up to two conditions, with or
\* without a NodeClaim creation time
ConditionedNodes ==
    [conditions : {<<>>} \cup {<<c>> : c \in Conditions}
                     \cup {<<c, d>> : c \in Conditions, d \in Conditions},
     created : {CreatedAt},
     nodeclaimCreationTime : {ZeroTime, ClaimCreatedAt}]

\* Node.Ready(): some condition is Ready with status True
Ready(n) ==
    \E i \in 1..Len(n.conditions) :
        n.conditions[i].status = "True" /\ n.conditions[i].type = "Ready"

\* Node.Created() of a node that may have a claim creation time
CreatedOrClaimed(n) ==
    IF n.nodeclaimCreationTime # ZeroTime THEN n.nodeclaimCreationTime
    ELSE n.created

\* the conditions the loop of NotReadyTime stops at
NotReadyConditions(n) ==
    {i \in 1..Len(n.conditions) :
        /\ n.conditions[i].type = "Ready"
        /\ n.conditions[i].status \in {"False", "Unknown"}}

\* NotReadyTime whose loop stops only at a Ready condition of status False
NotReadyTimeOnlyFalse(n) ==
    LET hits == {i \in NotReadyConditions(n) : n.conditions[i].status = "False"}
        t == IF hits = {} THEN ZeroTime
             ELSE n.conditions[CHOOSE i \in hits : \A j \in hits : i <= j]
                      .lastTransitionTime
    IN IF t # ZeroTime
       THEN IF n.nodeclaimCreationTime # ZeroTime
            THEN n.nodeclaimCreationTime ELSE t
       ELSE CreatedOrClaimed(n)

NotReadyTime(n) ==
    LET hits == NotReadyConditions(n)
        notReadyTransitionTime ==
            IF hits = {} THEN ZeroTime
            ELSE n.conditions[CHOOSE i \in hits : \A j \in hits : i <= j]
                     .lastTransitionTime
    IN IF notReadyTransitionTime # ZeroTime
       THEN IF n.nodeclaimCreationTime # ZeroTime
            THEN n.nodeclaimCreationTime
            ELSE notReadyTransitionTime
       ELSE CreatedOrClaimed(n)

CallNotReadyTime ==
    /\ fn.op = "NotReadyTime" /\ ~fn.done
    /\ fn' = [fn EXCEPT !.ret = NotReadyTime(fn.arg), !.done = TRUE]
    /\ UNCHANGED <<nodes, pods, ops, thr, rw, claimed, pricing, ui>>

\* the label a node list is sorted by, and its values ("" for a node
\* without the label)
ZoneLabel == "topology.kubernetes.io/zone"
ZoneValues == {"", "a"}

\* the -node-sort arguments: 'creation' or a label name, with or without a
\* suffix; an argument is the sequence of its parts
NodeSorts ==
    {<<k>> \o suffix : k \in {"creation", ZoneLabel},
                       suffix \in {<<>>, <<"=asc">>, <<"=dsc">>}}

\* natsort.Compare: the first string precedes the second in natural order
NatRank == [x \in NodeIdentities \cup {"", "a", ZoneLabel} |->
              IF x \in DOMAIN StrRank THEN StrRank[x]
              ELSE IF x = "a" THEN 5 ELSE 6]
NatLess(a, b) == NatRank[a] < NatRank[b]

\* the visible nodes a view sorts: the node under key k has a creation
\* time, may have the zone label, and a node with a name may lack the
\* provider id
ViewNodes ==
    UNION {{m \in [K -> [created : CreationTimes, zone : ZoneValues,
                         hasProviderID : BOOLEAN]] :
               \A k \in K : k \notin NodeNames => m[k].hasProviderID} :
              K \in {K \in SUBSET SortKeys : Cardinality(K) <= MaxSorted}}

ViewClusterOf(m) ==
    Cluster([k \in DOMAIN m |->
               Show(NewNode([KeyedSnapshot(k, m[k].created) EXCEPT
                   !.providerID = IF m[k].hasProviderID THEN @ ELSE "",
                   !.labels = IF m[k].zone = "" THEN NoLabels
                              ELSE {<<ZoneLabel, m[k].zone>>}]))],
            EmptyMap)

\* strings.HasSuffix on an argument
HasSuffix(nodeSort, suffix) ==
    Len(nodeSort) > 0 /\ nodeSort[Len(nodeSort)] = suffix

\* nodeSort[:len(nodeSort)-4]
TrimSuffix(nodeSort) == SubSeq(nodeSort, 1, Len(nodeSort) - 1)

\* Node.InstanceID() of a provider id that is not of the aws:/// form
InstanceID(n) == n.node.providerID

\* Node.ComputeLabel of a label that is neither the node age nor a
\* resource usage
ComputeLabel(n, labelName) == labelName

\* makeNodeSorter that takes =dsc for =asc
NodeSorterIgnoresDsc(c, nodeSort, lhs, rhs) ==
    LET key == IF HasSuffix(nodeSort, "=asc") \/ HasSuffix(nodeSort, "=dsc")
               THEN TrimSuffix(nodeSort) ELSE nodeSort
        l == c.nodes[lhs]
        r == c.nodes[rhs]
        lhsLabel == IF Label(l.node.labels, key[1]) # ""
                    THEN Label(l.node.labels, key[1])
                    ELSE ComputeLabel(l, key[1])
        rhsLabel == IF Label(r.node.labels, key[1]) # ""
                    THEN Label(r.node.labels, key[1])
                    ELSE ComputeLabel(r, key[1])
    IN IF key = <<"creation">>
       THEN IF Created(l) = Created(r)
            THEN NatLess(NodeName(l), NodeName(r))
            ELSE Created(r) < Created(l)
       ELSE IF lhsLabel = rhsLabel
            THEN NatLess(InstanceID(l), InstanceID(r))
            ELSE NatLess(lhsLabel, rhsLabel)

\* makeNodeSorter(nodeSort)(lhs, rhs)
NodeSorter(c, nodeSort, lhs, rhs) ==
    LET s1 == IF HasSuffix(nodeSort, "=asc") THEN TrimSuffix(nodeSort)
              ELSE nodeSort
        dsc == HasSuffix(s1, "=dsc")
        key == IF dsc THEN TrimSuffix(s1) ELSE s1
        l == c.nodes[lhs]
        r == c.nodes[rhs]
        lhsLabel == IF Label(l.node.labels, key[1]) # ""
                    THEN Label(l.node.labels, key[1])
                    ELSE ComputeLabel(l, key[1])
        rhsLabel == IF Label(r.node.labels, key[1]) # ""
                    THEN Label(r.node.labels, key[1])
                    ELSE ComputeLabel(r, key[1])
        less == IF key = <<"creation">>
                THEN IF Created(l) = Created(r)
                     THEN NatLess(NodeName(l), NodeName(r))
                     ELSE Created(r) < Created(l)
                ELSE IF lhsLabel = rhsLabel
                     THEN NatLess(InstanceID(l), InstanceID(r))
                     ELSE NatLess(lhsLabel, rhsLabel)
    IN IF dsc THEN ~less ELSE less

\* the insertion sort of sort.Slice with the node sorter as less
RECURSIVE SinkLeftBy(_, _, _, _)
SinkLeftBy(c, nodeSort, q, j) ==
    IF j > 1 /\ NodeSorter(c, nodeSort, q[j], q[j - 1])
    THEN SinkLeftBy(c, nodeSort, Swap(q, j, j - 1), j - 1)
    ELSE q

RECURSIVE InsertionSortBy(_, _, _, _)
InsertionSortBy(c, nodeSort, q, i) ==
    IF i > Len(q) THEN q
    ELSE InsertionSortBy(c, nodeSort, SinkLeftBy(c, nodeSort, q, i), i + 1)

\* UIModel.View: the node list of Stats(), sorted with the node sorter
ViewNodeList(c, nodeSort) ==
    InsertionSortBy(c, nodeSort, Stats(c).Nodes, 2)

CallView ==
    /\ fn.op = "View" /\ ~fn.done
    /\ fn' = [fn EXCEPT
                !.ret = ViewNodeList(ViewClusterOf(fn.arg.nodes),
                                     fn.arg.nodeSort),
                !.done = TRUE]
    /\ UNCHANGED <<nodes, pods, ops, thr, rw, claimed, pricing, ui>>

CallFargateCapacityProvisioned ==
    /\ fn.op = "FargateCapacityProvisioned" /\ ~fn.done
    /\ fn' = [fn EXCEPT !.ret = FargateCapacityProvisioned(fn.arg),
                        !.done = TRUE]
    /\ UNCHANGED <<nodes, pods, ops, thr, rw, claimed, pricing, ui>>

InitFn ==
    /\ IdleCluster
    /\ IdleRest
    /\ \/ fn \in {Pending("FargateCapacityProvisioned", a) : a \in Annotations}
       \/ \E m \in NodeMaps : \E o \in IterationOrders(DOMAIN m) :
              fn = Pending("Stats", [nodes |-> m, order |-> o])
       \/ fn \in {Pending("CapacityTypes", l) : l \in LabelMaps}
       \/ fn \in {Pending("NotReadyTime", n) : n \in ConditionedNodes}
       \/ \E m \in ViewNodes : \E nodeSort \in NodeSorts :
              fn = Pending("View", [nodes |-> m, nodeSort |-> nodeSort])

NextFn ==
    \/ CallFargateCapacityProvisioned
    \/ CallStats
    \/ CallCapacityTypes
    \/ CallNotReadyTime
    \/ CallView

SpecFn == InitFn /\ [][NextFn]_vars

----------------------------------------------------------------------------
(* The node of a NodeClaim: the handlers of startNodeClaimWatch and        *)
(* startNodeWatch on the node map, and Node.Ready() and Node.Created().    *)
(* A node here is its snapshot (name, provider id, creation timestamp,     *)
(* conditions) and its nodeclaimCreationTime; fromClaim says that          *)
(* NewNodeFromNodeClaim built the node, wentReady that a call of Ready()   *)
(* has found it Ready.                                                      *)

\* the NodeClaims of one machine, before and after it registered its node
NodeClaims ==
    [nodeName : {"", "n1"}, providerID : {"", "i1"}, created : {ClaimCreatedAt}]

\* the Node objects of the machine: no condition yet, Ready or not Ready
WatchedNodes ==
    [name : {"n1"}, providerID : {"i1"}, created : {CreatedAt},
     conditions : {<<>>} \cup
         {<<[type |-> "Ready", status |-> st,
             lastTransitionTime |-> TransitionAt]>> : st \in {"True", "False"}}]

\* NewNode for a Node object of the node watch
NewWatchedNode(n) ==
    [name |-> n.name, providerID |-> n.providerID, created |-> n.created,
     conditions |-> n.conditions, nodeclaimCreationTime |-> ZeroTime,
     fromClaim |-> FALSE, wentReady |-> FALSE]

\* the snapshot has the claim's node name, provider id and creation
\* timestamp and no conditions
NewNodeFromNodeClaim(nc) ==
    [NewWatchedNode([name |-> nc.nodeName, providerID |-> nc.providerID,
                     created |-> nc.created, conditions |-> <<>>])
        EXCEPT !.nodeclaimCreationTime = nc.created, !.fromClaim = TRUE]

\* Node.Update: the snapshot is replaced, nothing else
UpdateSnapshot(n, node) ==
    [n EXCEPT !.name = node.name, !.providerID = node.providerID,
              !.created = node.created, !.conditions = node.conditions]

\* Cluster.AddNode on the node map m: upsert by Name()
AddToNodeMap(m, node) ==
    LET name == IF node.name = "" THEN node.providerID ELSE node.name
    IN IF name \in DOMAIN m
       THEN [m EXCEPT ![name] = UpdateSnapshot(@, node)]
       ELSE [k \in DOMAIN m \cup {name} |-> IF k = name THEN node ELSE m[k]]

\* Node.Ready(): a node found Ready loses its nodeclaimCreationTime
ReadyCall(n) ==
    IF Ready(n)
    THEN [n EXCEPT !.nodeclaimCreationTime = ZeroTime, !.wentReady = TRUE]
    ELSE n

\* the AddFunc and the UpdateFunc of the NodeClaim watch, which have the
\* same body: nothing without a provider id or when GetNode finds it
NodeClaimFunc ==
    \E nc \in NodeClaims :
        /\ nc.providerID # ""
        /\ nc.providerID \notin DOMAIN claimed
        /\ claimed' = AddToNodeMap(claimed, NewNodeFromNodeClaim(nc))
        /\ UNCHANGED <<nodes, pods, ops, thr, rw, fn, pricing, ui>>

\* the DeleteFunc of the NodeClaim watch and of the node watch
NodeDeleteFunc ==
    /\ "i1" \in DOMAIN claimed
    /\ claimed' = [k \in DOMAIN claimed \ {"i1"} |-> claimed[k]]
    /\ UNCHANGED <<nodes, pods, ops, thr, rw, fn, pricing, ui>>

\* the AddFunc of the node watch
WatchedNodeAddFunc ==
    \E n \in WatchedNodes :
        /\ claimed' = AddToNodeMap(claimed, NewWatchedNode(n))
        /\ UNCHANGED <<nodes, pods, ops, thr, rw, fn, pricing, ui>>

\* the UpdateFunc of the node watch for a node GetNode finds
WatchedNodeUpdateFunc ==
    \E n \in WatchedNodes :
        /\ n.providerID \in DOMAIN claimed
        /\ claimed' = [claimed EXCEPT ![n.providerID] = UpdateSnapshot(@, n)]
        /\ UNCHANGED <<nodes, pods, ops, thr, rw, fn, pricing, ui>>

\* a render calls Ready() on a node of the node map
CallReady ==
    \E k \in DOMAIN claimed :
        /\ claimed' = [claimed EXCEPT ![k] = ReadyCall(@)]
        /\ UNCHANGED <<nodes, pods, ops, thr, rw, fn, pricing, ui>>

NextClaim ==
    \/ NodeClaimFunc
    \/ NodeDeleteFunc
    \/ WatchedNodeAddFunc
    \/ WatchedNodeUpdateFunc
    \/ CallReady

SpecClaim == Init /\ [][NextClaim]_vars

----------------------------------------------------------------------------
(* pkg/aws/pricing.go: the goroutine NewPricingProvider starts, the        *)
(* update cycle of updatePricing, and OnUpdate called by another           *)
(* goroutine.  A fetch is a call to the pricing API: its result is an      *)
(* input, an error or a price map that may be empty.                       *)

\* the results of fetchOnDemandPricing: an error with no map, or a map
PriceMaps(type) == {EmptyMap} \cup {[t \in {type} |-> v] : v \in {1, 2}}
FetchResults(type) ==
    {[err |-> TRUE, prices |-> EmptyMap]} \cup
    {[err |-> FALSE, prices |-> m] : m \in PriceMaps(type)}

\* updateOnDemandPricing without the test for an empty result
updateOnDemandPricingAnyResult(table, onDemand, onDemandMetal) ==
    IF onDemand.err \/ onDemandMetal.err
    THEN [err |-> TRUE, table |-> table]
    ELSE [err |-> FALSE,
          table |-> [t \in DOMAIN onDemand.prices
                               \cup DOMAIN onDemandMetal.prices |->
                        IF t \in DOMAIN onDemandMetal.prices
                        THEN onDemandMetal.prices[t]
                        ELSE onDemand.prices[t]]]

\* updateOnDemandPricing with the results of its two fetches: the error it
\* returns and the on-demand table afterwards
updateOnDemandPricing(table, onDemand, onDemandMetal) ==
    IF onDemand.err \/ onDemandMetal.err
    THEN [err |-> TRUE, table |-> table]
    ELSE IF DOMAIN onDemand.prices = {} \/ DOMAIN onDemandMetal.prices = {}
    THEN [err |-> TRUE, table |-> table]
    ELSE [err |-> FALSE,
          table |-> [t \in DOMAIN onDemand.prices
                               \cup DOMAIN onDemandMetal.prices |->
                        IF t \in DOMAIN onDemandMetal.prices
                        THEN onDemandMetal.prices[t]
                        ELSE onDemand.prices[t]]]

\* wg.Wait() that returns when the on-demand fetch is done
WaitGroupDoneOnDemand(p) == p.fetch["onDemand"] # "running"

\* wg.Wait() of updatePricing returns: the three goroutines have called Done
WaitGroupDone(p) == \A f \in Fetches : p.fetch[f] # "running"

\* updatePricing begins: the three fetch goroutines are started
BeginCycle(p) ==
    [p EXCEPT !.pc = "fetching",
              !.fetch = [f \in Fetches |-> "running"],
              !.timer = FALSE,
              !.atStart = p.onUpdateFuncs,
              !.calls = [f \in DOMAIN p.calls |-> 0],
              !.cycles = @ + 1]

\* the goroutine runs its first statement, the initial price update
InitialUpdate ==
    /\ pricing.pc = "start"
    /\ pricing' = BeginCycle(pricing)
    /\ UNCHANGED <<nodes, pods, ops, thr, rw, fn, claimed, ui>>

\* the goroutine of updateOnDemandPricing runs to its end
OnDemandFetch ==
    \E onDemand \in FetchResults("m5.large") :
    \E onDemandMetal \in FetchResults("m5.metal") :
        LET r == updateOnDemandPricing(pricing.onDemandPrices,
                                       onDemand, onDemandMetal)
        IN /\ pricing.pc = "fetching" /\ pricing.fetch["onDemand"] = "running"
           /\ pricing' = [pricing EXCEPT
                             !.onDemandPrices = r.table,
                             !.fetch["onDemand"] =
                                 IF r.err THEN "failed" ELSE "ok"]
           /\ UNCHANGED <<nodes, pods, ops, thr, rw, fn, claimed, ui>>

\* the goroutine of updateSpotPricing or updateFargatePricing runs to its end
SpotOrFargateFetch ==
    \E f \in {"spot", "fargate"} : \E result \in {"ok", "failed"} :
        /\ pricing.pc = "fetching" /\ pricing.fetch[f] = "running"
        /\ pricing' = [pricing EXCEPT !.fetch[f] = result]
        /\ UNCHANGED <<nodes, pods, ops, thr, rw, fn, claimed, ui>>

\* wg.Wait() returns and the range statement reads p.onUpdateFuncs
WaitReturns ==
    /\ pricing.pc = "fetching" /\ WaitGroupDone(pricing)
    /\ pricing' = [pricing EXCEPT !.pc = "notify",
                                  !.over = pricing.onUpdateFuncs, !.i = 1]
    /\ UNCHANGED <<nodes, pods, ops, thr, rw, fn, claimed, ui>>

\* one iteration of the loop: f()
Notify ==
    /\ pricing.pc = "notify" /\ pricing.i <= Len(pricing.over)
    /\ pricing' = [pricing EXCEPT !.calls[pricing.over[pricing.i]] = @ + 1,
                                  !.i = @ + 1]
    /\ UNCHANGED <<nodes, pods, ops, thr, rw, fn, claimed, ui>>

\* the loop is over, updatePricing returns, and the goroutine evaluates
\* time.After(pricingUpdatePeriod) and blocks in select
NotifyDone ==
    /\ pricing.pc = "notify" /\ pricing.i > Len(pricing.over)
    /\ pricing' = [pricing EXCEPT !.pc = "select", !.timer = FALSE]
    /\ UNCHANGED <<nodes, pods, ops, thr, rw, fn, claimed, ui>>

\* pricingUpdatePeriod has passed since the select began
TimerFires ==
    /\ pricing.pc = "select" /\ ~pricing.timer
    /\ pricing.cycles < MaxCycles
    /\ pricing' = [pricing EXCEPT !.timer = TRUE]
    /\ UNCHANGED <<nodes, pods, ops, thr, rw, fn, claimed, ui>>

\* the context is cancelled
Cancel ==
    /\ ~pricing.cancelled
    /\ pricing' = [pricing EXCEPT !.cancelled = TRUE]
    /\ UNCHANGED <<nodes, pods, ops, thr, rw, fn, claimed, ui>>

\* select takes case <-ctx.Done(), one of its ready cases: return
SelectDone ==
    /\ pricing.pc = "select" /\ pricing.cancelled
    /\ pricing' = [pricing EXCEPT !.pc = "done"]
    /\ UNCHANGED <<nodes, pods, ops, thr, rw, fn, claimed, ui>>

\* select takes case <-time.After(...), one of its ready cases
SelectTimer ==
    /\ pricing.pc = "select" /\ pricing.timer
    /\ pricing' = BeginCycle(pricing)
    /\ UNCHANGED <<nodes, pods, ops, thr, rw, fn, claimed, ui>>

\* OnUpdate, first half: the caller reads p.onUpdateFuncs for append
OnUpdateRead ==
    /\ pricing.reg = "idle" /\ Len(pricing.onUpdateFuncs) < MaxCallbacks
    /\ pricing' = [pricing EXCEPT !.reg = "append"]
    /\ UNCHANGED <<nodes, pods, ops, thr, rw, fn, claimed, ui>>

\* OnUpdate, second half: the caller writes the longer list
OnUpdateWrite ==
    /\ pricing.reg = "append"
    /\ pricing' = [pricing EXCEPT
                      !.onUpdateFuncs = Append(@, Len(@) + 1), !.reg = "idle"]
    /\ UNCHANGED <<nodes, pods, ops, thr, rw, fn, claimed, ui>>

NextPricing ==
    \/ InitialUpdate
    \/ OnDemandFetch
    \/ SpotOrFargateFetch
    \/ WaitReturns
    \/ Notify
    \/ NotifyDone
    \/ TimerFires
    \/ Cancel
    \/ SelectDone
    \/ SelectTimer
    \/ OnUpdateRead
    \/ OnUpdateWrite

SpecPricing == Init /\ [][NextPricing]_vars

----------------------------------------------------------------------------
(* UIModel.View and UIModel.Update: the cursor, the paginator and the      *)
(* slice bounds of the last render.  The paginator is the one of           *)
(* github.com/charmbracelet/bubbles, modelled by what its methods do.  The *)
(* renders are those after a WindowSizeMsg with room for a node line.      *)

\* the largest number of visible nodes
MaxNodes == 3
\* the lines View writes before the node list, plus 2
HeaderLines == 5
\* the lines writeNodeInfo writes for one node
NodeLines == 1
\* the largest page number the key "right" is followed to (past the last
\* page NextPage goes on without end)
MaxPage == 4
\* the heights of the window: room for one or for two nodes per page
Heights == {7, 8}

Min(a, b) == IF a < b THEN a ELSE b

computeItemsPerPage(u) == ((u.height - HeaderLines) \div NodeLines) - 1

\* paginator.SetTotalPages
SetTotalPages(u, items) ==
    IF items < 1 THEN u
    ELSE [u EXCEPT !.TotalPages = (items \div u.PerPage)
                                 + (IF items % u.PerPage > 0 THEN 1 ELSE 0)]

\* paginator.GetSliceBounds
GetSliceBounds(u, length) ==
    [start |-> u.Page * u.PerPage,
     end |-> Min(u.Page * u.PerPage + u.PerPage, length)]

\* UIModel.View: nothing changes without nodes; otherwise the page size,
\* the page, the slice bounds and the cursor are brought up to date
View(u) ==
    IF u.numNodes = 0 THEN u
    ELSE LET sized == SetTotalPages(
                          [u EXCEPT !.PerPage = computeItemsPerPage(u)],
                          u.numNodes)
             paged == IF sized.Page * sized.PerPage > u.numNodes
                      THEN [sized EXCEPT !.Page = sized.TotalPages - 1]
                      ELSE sized
             b == GetSliceBounds(paged, u.numNodes)
         IN [paged EXCEPT !.start = b.start, !.end = b.end,
                          !.cursor = IF @ > b.end - b.start
                                     THEN (b.end - b.start) - 1 ELSE @]

\* the capacity of the slice Stats() appends n nodes to
Cap(n) == IF n = 3 THEN 4 ELSE n

\* stats.Nodes[u.start:u.end][u.cursor].Name() does not panic: the slice
\* expression is within the capacity, the index within the slice, and the
\* entry is a node and not a nil beyond the length
EnterInRange(u) ==
    /\ 0 <= u.start /\ u.start <= u.end /\ u.end <= Cap(u.numNodes)
    /\ 0 <= u.cursor /\ u.cursor < u.end - u.start
    /\ u.start + u.cursor < u.numNodes

\* tea.WindowSizeMsg
WindowSizeMsg ==
    \E h \in Heights :
        /\ ~ui.panicked
        /\ ui' = [ui EXCEPT !.height = h]
        /\ UNCHANGED <<nodes, pods, ops, thr, rw, fn, claimed, pricing>>

\* tickMsg: the model does not change
TickMsg ==
    /\ ~ui.panicked
    /\ UNCHANGED vars

\* the key "up"
KeyUp ==
    /\ ~ui.panicked
    /\ ui' = [ui EXCEPT !.cursor = IF @ > 0 THEN @ - 1 ELSE @]
    /\ UNCHANGED <<nodes, pods, ops, thr, rw, fn, claimed, pricing>>

\* the key "down"
KeyDown ==
    /\ ~ui.panicked
    /\ ui' = [ui EXCEPT !.cursor = IF @ < (ui.end - ui.start) - 1
                                   THEN @ + 1 ELSE @]
    /\ UNCHANGED <<nodes, pods, ops, thr, rw, fn, claimed, pricing>>

\* the keys "left" and "right" reach paginator.Update: PrevPage, NextPage
KeyPage ==
    \E key \in {"left", "right"} :
        /\ ~ui.panicked
        /\ key = "right" => ui.Page < MaxPage
        /\ ui' = [ui EXCEPT !.Page =
                     IF key = "left"
                     THEN (IF @ > 0 THEN @ - 1 ELSE @)
                     ELSE (IF @ # ui.TotalPages - 1 THEN @ + 1 ELSE @)]
        /\ UNCHANGED <<nodes, pods, ops, thr, rw, fn, claimed, pricing>>

\* the key "enter": the node under the cursor is selected, or the index
\* expression panics
KeyEnter ==
    /\ ~ui.panicked
    /\ ui' = IF EnterInRange(ui)
             THEN [ui EXCEPT !.selected = ui.start + ui.cursor]
             ELSE [ui EXCEPT !.panicked = TRUE]
    /\ UNCHANGED <<nodes, pods, ops, thr, rw, fn, claimed, pricing>>

\* a render
Render ==
    /\ ~ui.panicked /\ ui.height \in Heights
    /\ ui' = View(ui)
    /\ UNCHANGED <<nodes, pods, ops, thr, rw, fn, claimed, pricing>>

\* the watches change the visible node set of the cluster
VisibleNodesChange ==
    \E n \in 0..MaxNodes :
        /\ ~ui.panicked /\ n # ui.numNodes
        /\ ui' = [ui EXCEPT !.numNodes = n]
        /\ UNCHANGED <<nodes, pods, ops, thr, rw, fn, claimed, pricing>>

NextUI ==
    \/ WindowSizeMsg
    \/ TickMsg
    \/ KeyUp
    \/ KeyDown
    \/ KeyPage
    \/ KeyEnter
    \/ Render
    \/ VisibleNodesChange

SpecUI == Init /\ [][NextUI]_vars

----------------------------------------------------------------------------
(* Notions the claims use *)

\* the sum of Requested() over the pods held by the bound-pod map of n
RECURSIVE SumRequested(_, _)
SumRequested(n, keys) ==
    IF keys = {} THEN ZeroResources
    ELSE LET k == CHOOSE x \in keys : TRUE
         IN AddResources(SumRequested(n, keys \ {k}), Requested(n.pods[k].pod))

BoundRequested(n) == SumRequested(n, DOMAIN n.pods)

\* the nodes of the node map whose bound-pod map contains key
BoundTo(c, key) == {n \in DOMAIN c.nodes : key \in DOMAIN c.nodes[n].pods}

----------------------------------------------------------------------------
(* C1 *)

\* C1: in every state, for every node and every resource name, the cached
\* usage total of the node equals the sum of Requested() over the pods that
\* are in its bound-pod map.
C1_UsageEqualsBoundRequests ==
    \A n \in DOMAIN nodes : nodes[n].used = BoundRequested(nodes[n])

----------------------------------------------------------------------------
(* C2 *)

\* C2: in every state, every pod of the pod map that is scheduled and not
\* terminal is in the bound-pod map of exactly one node of the node map, its
\* target, and the usage total of that node counts each pod it holds once
\* (the pod-count resource of the usage is the number of bound pods).
C2_ScheduledPodBoundExactlyOnce ==
    \A k \in DOMAIN pods :
        IsScheduled(pods[k]) /\ ~IsCompleted(pods[k]) =>
            /\ BoundTo(TheCluster, k) = {pods[k].nodeName}
            /\ \A n \in BoundTo(TheCluster, k) :
                   nodes[n].used["pods"] = Cardinality(DOMAIN nodes[n].pods)

----------------------------------------------------------------------------
(* C3 *)

\* C3: when the pod watch's UpdateFunc (Pod.Update, then AddPod) handles a
\* pod that is bound to its node and whose requests have changed, the usage
\* total of the node afterwards holds the new requests in place of the old.
C3_UpdateReplacesUsage ==
    \A p \in PodSnapshots(Phases) :
        LET n == p.nodeName
            after == PodUpdateFunc(TheCluster, p, FALSE)
        IN ( /\ ~isTerminalPod(p, FALSE)
             /\ IsScheduled(p)
             /\ p.key \in DOMAIN pods
             /\ n \in DOMAIN nodes
             /\ p.key \in DOMAIN nodes[n].pods
             /\ nodes[n].pods[p.key].shared
             /\ Requested(pods[p.key]) # Requested(p) )
           => after.nodes[n].used =
                AddResources(SubResources(nodes[n].used, Requested(pods[p.key])),
                             Requested(p))

----------------------------------------------------------------------------
(* C4 *)

\* what C4 compares: the pod count, and per node the bound-pod set and the
\* usage total
Bindings(c) ==
    [count |-> TotalPods(c),
     bound |-> [n \in DOMAIN c.nodes |-> DOMAIN c.nodes[n].pods],
     used |-> [n \in DOMAIN c.nodes |-> c.nodes[n].used]]

\* the ways the pod p can be passed to AddPod in state c: as a new object,
\* or as the object of the pod map after Pod.Update(p)
AddPodCalls(c, p) ==
    {AddPod(c, p, FALSE)} \cup
    (IF p.key \in DOMAIN c.pods
     THEN {AddPod(PodUpdate(c, p.key, p), p, TRUE)} ELSE {})

\* C4: AddPod is idempotent for an unchanged pod: after AddPod(p), a second
\* AddPod with the same identity, target node and requests leaves the pod
\* count, the bound-pod set and the usage total of every node as they were
\* (in every state that leaves the run room for the two calls).
C4_AddPodIdempotent ==
    ops + 2 <= MaxOps =>
        \A p \in PodSnapshots(Phases) :
            \A c1 \in AddPodCalls(TheCluster, p) :
                \A c2 \in AddPodCalls(c1, p) : Bindings(c2) = Bindings(c1)

\* a visible node, then the same scheduled running pod added twice: the pod
\* is counted once and the node's usage is the pod's requests
C4_Witness ==
    /\ ops = 3
    /\ \E sn \in NodeInputs, p \in PodInputs, lookup \in Lookups :
          /\ IsScheduled(p) /\ ~IsCompleted(p) /\ p.nodeName = sn.name
          /\ TheCluster =
               AddPod(AddPod(AddNode(NewCluster,
                                     Show(updatePrice(NewNode(sn), lookup))),
                             p, FALSE),
                      p, FALSE)
          /\ TotalPods(TheCluster) = 1
          /\ nodes[sn.name].used = Requested(p)

----------------------------------------------------------------------------
(* C5 *)

\* the identities of the node stored under n: its name and its provider id
Identities(n) == {n.node.name, n.node.providerID} \ {""}

\* C5: after DeleteNode with the identity of a node (its name or its
\* provider id), every pod that was bound to that node is gone from the pod
\* map, and Stats() counts neither those pods nor their usage.
C5_DeleteNodeRemovesBoundPods ==
    \A n \in DOMAIN nodes : \A id \in Identities(nodes[n]) :
        LET after == DeleteNode(TheCluster, id)
        IN \A k \in DOMAIN nodes[n].pods :
               /\ ~GetPod(after, k)
               /\ k \notin CountedPods(after)
               /\ \A m \in VisibleNodes(after) : k \notin DOMAIN after.nodes[m].pods

----------------------------------------------------------------------------
(* C6 *)

\* what C6 compares of a Stats() result: the visible node list (each node's
\* name, snapshot and usage), the pod counts and the two resource totals
StatsView(c) ==
    LET st == Stats(c)
    IN [Nodes |-> [i \in DOMAIN st.Nodes |->
                     [name |-> st.Nodes[i],
                      node |-> c.nodes[st.Nodes[i]].node,
                      used |-> Used(c.nodes[st.Nodes[i]])]],
        NumNodes |-> st.NumNodes,
        TotalPods |-> st.TotalPods,
        PodsByPhase |-> st.PodsByPhase,
        BoundPodCount |-> st.BoundPodCount,
        AllocatableResources |-> st.AllocatableResources,
        UsedResources |-> st.UsedResources]

----------------------------------------------------------------------------
(* C7 *)

\* the visible nodes of c that hold key in their bound-pod map
VisiblyBoundTo(c, key) ==
    {m \in VisibleNodes(c) : key \in DOMAIN c.nodes[m].pods}

\* C7: a pod bound to a node of the node map that is hidden is not among the
\* pods Stats() counts (TotalPods, PodsByPhase, BoundPodCount) and is bound
\* to no node whose usage Stats() adds to UsedResources; once Show() is
\* called on the node, Stats() counts the pod, and the node is the only one
\* through which its requests reach UsedResources.
C7_HiddenNodePodsUncounted ==
    \A n \in DOMAIN nodes :
        ~nodes[n].visible =>
            \A k \in DOMAIN nodes[n].pods :
                LET shown == [TheCluster EXCEPT !.nodes[n] = Show(@)]
                IN /\ k \notin CountedPods(TheCluster)
                   /\ VisiblyBoundTo(TheCluster, k) = {}
                   /\ k \in CountedPods(shown)
                   /\ VisiblyBoundTo(shown, k) = {n}

----------------------------------------------------------------------------
(* C8 *)

\* C8: a node of the node map on which Show() was never called is not in
\* Stats().Nodes, and NumNodes, AllocatableResources, UsedResources and
\* TotalPrice are what they would be without it; ForEachNode visits it and
\* GetNode returns it.
C8_HiddenNodeContributesNothing ==
    \A n \in DOMAIN nodes :
        ~nodes[n].visible =>
            LET without == Cluster([k \in DOMAIN nodes \ {n} |-> nodes[k]], pods)
                st == Stats(TheCluster)
                st0 == Stats(without)
            IN /\ \A i \in DOMAIN st.Nodes : st.Nodes[i] # n
               /\ st.NumNodes = st0.NumNodes
               /\ st.AllocatableResources = st0.AllocatableResources
               /\ st.UsedResources = st0.UsedResources
               /\ st.TotalPrice = st0.TotalPrice
               /\ n \in ForEachNode(TheCluster)
               /\ GetNode(TheCluster, NodeName(nodes[n]))

\* a hidden node with allocatable cpu, a bound pod and a price of its own,
\* next to a visible node
C8_Witness ==
    \E n \in DOMAIN nodes, m \in DOMAIN nodes :
        /\ ~nodes[n].visible /\ nodes[m].visible
        /\ nodes[n].node.allocatable > 0
        /\ nodes[n].used # ZeroResources
        /\ nodes[n].Price # Float(0)
        /\ Stats(TheCluster).Nodes = <<m>>

----------------------------------------------------------------------------
(* C9 *)

\* the sum of the prices of the nodes of S whose price is known
RECURSIVE KnownPriceSum(_, _)
KnownPriceSum(c, S) ==
    IF S = {} THEN 0
    ELSE LET n == CHOOSE x \in S : TRUE
         IN KnownPriceSum(c, S \ {n})
            + (IF HasPrice(c.nodes[n]) THEN c.nodes[n].Price.val ELSE 0)

\* C9: Stats().TotalPrice is the sum of the prices of the visible nodes whose
\* price is known; a visible node whose price is unknown adds zero to it,
\* and is counted in NumNodes and listed in Nodes.
C9_TotalPriceSumsKnownPrices ==
    LET st == Stats(TheCluster)
    IN /\ st.TotalPrice = Float(KnownPriceSum(TheCluster, VisibleNodes(TheCluster)))
       /\ st.NumNodes = Cardinality(VisibleNodes(TheCluster))
       /\ {st.Nodes[i] : i \in DOMAIN st.Nodes} = VisibleNodes(TheCluster)

----------------------------------------------------------------------------
(* C10 *)

\* the v1.Node of the scenarios: n1 with the given allocatable cpu
N1(cpu) == [name |-> "n1", providerID |-> "i1", created |-> 1,
            allocatable |-> cpu, labels |-> OnDemandLabels]

\* C10: AddNode of a node whose Name() is already a key of the node map
\* replaces the snapshot of the stored node and adds no node: the node map
\* keeps its keys, NumNodes is unchanged, and AllocatableResources holds the
\* allocatable quantities of the new snapshot in place of the old ones (in
\* every state that leaves the run room for the call).
C10_AddNodeReplacesSnapshot ==
    ops + 1 <= MaxOps =>
    \A sn \in NodeSnapshots(LabelSets) :
        sn.name \in DOMAIN nodes =>
            LET old == nodes[sn.name]
                after == AddNode(TheCluster, NewNode(sn))
                st == Stats(TheCluster)
            IN /\ DOMAIN after.nodes = DOMAIN nodes
               /\ Stats(after).NumNodes = st.NumNodes
               /\ after.nodes[sn.name].node = sn
               /\ Stats(after).AllocatableResources =
                    IF old.visible
                    THEN AddResources(SubResources(st.AllocatableResources,
                                                   Allocatable(old)),
                                      Allocatable(NewNode(sn)))
                    ELSE st.AllocatableResources

\* n1 added visible with cpu=1, then added again with cpu=2: one node, and
\* the allocatable total is 2
C10_Witness ==
    /\ ops = 2
    /\ \E l1 \in Lookups, l2 \in Lookups :
          TheCluster =
             AddNode(AddNode(NewCluster, Show(updatePrice(NewNode(N1(1)), l1))),
                     updatePrice(NewNode(N1(2)), l2))
    /\ Stats(TheCluster).NumNodes = 1
    /\ Stats(TheCluster).AllocatableResources["cpu"] = 2

----------------------------------------------------------------------------
(* C11 *)

\* C11: AddNode of a node whose Name() is already a key of the node map
\* keeps the stored entity: its bound-pod map, usage total, visibility and
\* price are unchanged and its snapshot is the new one; every other node and
\* the pod map are unchanged (in every state that leaves the run room for
\* the call).
C11_AddNodeKeepsEntity ==
    ops + 1 <= MaxOps =>
        \A sn \in NodeSnapshots(LabelSets) :
            \A shown \in BOOLEAN : \A lookup \in Lookups :
                sn.name \in DOMAIN nodes =>
                    LET new == updatePrice(NewNode(sn), lookup)
                        after == AddNode(TheCluster,
                                         IF shown THEN Show(new) ELSE new)
                        old == nodes[sn.name]
                        kept == after.nodes[sn.name]
                    IN /\ DOMAIN after.nodes = DOMAIN nodes
                       /\ kept.pods = old.pods
                       /\ kept.used = old.used
                       /\ kept.visible = old.visible
                       /\ kept.Price = old.Price
                       /\ kept.node = sn
                       /\ \A m \in DOMAIN nodes \ {sn.name} :
                              after.nodes[m] = nodes[m]
                       /\ after.pods = pods

\* n1 added visible with cpu=1, a pod bound to it, then n1 added again as a
\* new hidden entity with cpu=2: the stored node is still visible and still
\* holds the pod and its usage
C11_Witness ==
    /\ ops = 3
    /\ \E p \in PodInputs, l1 \in Lookups, l2 \in Lookups :
          /\ p.nodeName = "n1" /\ ~IsCompleted(p)
          /\ TheCluster =
               AddNode(AddPod(AddNode(NewCluster,
                                      Show(updatePrice(NewNode(N1(1)), l1))),
                              p, FALSE),
                       updatePrice(NewNode(N1(2)), l2))
          /\ nodes["n1"].visible
          /\ DOMAIN nodes["n1"].pods = {p.key}
          /\ nodes["n1"].used = Requested(p)
          /\ nodes["n1"].node.allocatable = 2

----------------------------------------------------------------------------
(* C12 *)

\* C12: after the pod watch has processed an update notification in which
\* the pod is terminal (phase Succeeded or Failed, or a deletion timestamp),
\* the pod is not in the pod map, it is bound to no node, and every node's
\* usage total is the sum of the requests of the pods still bound to it.
C12_TerminalPodEvicted ==
    \A p \in PodSnapshots(Phases) : \A deleting \in BOOLEAN :
        isTerminalPod(p, deleting) =>
            LET after == PodUpdateFunc(TheCluster, p, deleting)
            IN /\ ~GetPod(after, p.key)
               /\ BoundTo(after, p.key) = {}
               /\ \A n \in DOMAIN after.nodes :
                      after.nodes[n].used = BoundRequested(after.nodes[n])

----------------------------------------------------------------------------
(* C13 *)

----------------------------------------------------------------------------
(* C14 *)

\* C14: AddPod of a scheduled pod that is not in the pod map, followed by
\* DeletePod of its (namespace, name), restores Stats().TotalPods and the
\* usage total of every node to their values before the AddPod; a node the
\* AddPod created has no usage.
C14_AddThenDeleteRestores ==
    \A p \in PodSnapshots(Phases) :
        (IsScheduled(p) /\ ~GetPod(TheCluster, p.key)) =>
            LET after == DeletePod(AddPod(TheCluster, p, FALSE), p.key)
            IN /\ Stats(after).TotalPods = Stats(TheCluster).TotalPods
               /\ \A n \in DOMAIN after.nodes :
                      after.nodes[n].used =
                          IF n \in DOMAIN nodes THEN nodes[n].used
                          ELSE ZeroResources

----------------------------------------------------------------------------
(* C15 *)

\* C15: the node map is keyed by the provider id of the node, and by its name
\* only when it has no provider id: a node of the node map with a provider
\* id is stored under it, GetNode(providerID) finds it, and after
\* DeleteNode(providerID) GetNode(providerID) does not.
C15_KeyedByProviderID ==
    \A k \in DOMAIN nodes :
        LET id == nodes[k].node.providerID
        IN id # "" =>
               /\ k = id
               /\ GetNode(TheCluster, id)
               /\ ~GetNode(DeleteNode(TheCluster, id), id)

----------------------------------------------------------------------------
(* C16 *)

\* what C16 requires a delete of a missing key to leave alone: the keys of
\* the node map, every node's bound-pod set and usage total, and the pod map
Untouched(after, before) ==
    /\ DOMAIN after.nodes = DOMAIN before.nodes
    /\ \A n \in DOMAIN before.nodes :
          /\ DOMAIN after.nodes[n].pods = DOMAIN before.nodes[n].pods
          /\ after.nodes[n].used = before.nodes[n].used
    /\ after.pods = before.pods

\* C16: GetNode and GetPod of a key that is not in the node map or the pod
\* map report not-found, and DeleteNode and DeletePod of such a key leave the
\* node map, the pod map and every node's usage total unchanged.
C16_MissingKeysAreNoOps ==
    /\ \A id \in NodeIdentities :
          id \notin DOMAIN nodes =>
              /\ ~GetNode(TheCluster, id)
              /\ Untouched(DeleteNode(TheCluster, id), TheCluster)
    /\ \A key \in PodKeys :
          key \notin DOMAIN pods =>
              /\ ~GetPod(TheCluster, key)
              /\ Untouched(DeletePod(TheCluster, key), TheCluster)

----------------------------------------------------------------------------
(* C17 *)

\* the pods Stats() counts whose node is one Stats() does not skip
CountedOnVisible(c) ==
    {k \in CountedPods(c) : c.pods[k].nodeName \in VisibleNodes(c)}

\* C17: whatever steps of AddPod, DeletePod, AddNode and DeleteNode have run
\* when Stats() takes the cluster, its result is that of a state between two
\* complete operations: the number of counted pods that target a visible
\* node equals the pod-count resource of UsedResources.
C17_StatsSeesCompleteState ==
    Cardinality(CountedOnVisible(TheCluster))
        = Stats(TheCluster).UsedResources["pods"]

----------------------------------------------------------------------------
(* C18 *)

\* no call of the pod goroutine or of the node goroutine is under way
Quiescent == thr.pod.pc = "idle" /\ thr.node.pc = "idle"

\* C18: once a DeleteNode(N) and a concurrent AddPod of a pod P targeting N
\* have both returned, either P is absent from the pod map and bound to no
\* node of the node map, or P is in the pod map and bound to the node stored
\* under N; P is never bound in the node map while missing from the pod map.
C18_DeleteNodeAddPodSettle ==
    Quiescent =>
        \/ /\ ~GetPod(TheCluster, ConcPod.key)
           /\ BoundTo(TheCluster, ConcPod.key) = {}
        \/ /\ GetPod(TheCluster, ConcPod.key)
           /\ BoundTo(TheCluster, ConcPod.key) = {ConcPod.nodeName}

----------------------------------------------------------------------------
(* C19 *)

\* C19: the visibility of a node of the node map only moves from hidden to
\* visible: no step, the Hide() of AddPod's placeholder path included, hides
\* a node that was visible.
C19_VisibilityOnlyRises ==
    [][\A n \in DOMAIN nodes \cap DOMAIN nodes' :
           nodes[n].visible => nodes'[n].visible]_vars

----------------------------------------------------------------------------
(* C20 *)

\* C20: no interleaving of the calls deadlocks, also when new readers wait
\* behind a waiting writer and an accessor takes a read lock it already
\* holds: whenever some goroutine is inside a call, a goroutine inside a
\* call can execute its next instruction.  (A goroutine inside a call waits
\* only for goroutines inside calls, so a state where none of them can move
\* is one no call returns from.)
C20_NoDeadlock ==
    (\E g \in Goroutines : InCall(g)) =>
        \E g \in Goroutines : InCall(g) /\ ENABLED Step(g)

----------------------------------------------------------------------------
(* C21 *)

\* C21: a node update notification (not a deletion) for an identity that is
\* not in the node map is handled without failure and re-adds the node: the
\* handler does not panic and the node is in the node map afterwards.
C21_UpdateOfMissingNodeReAdds ==
    \A sn \in NodeInputs : \A lookup \in Lookups :
        ~GetNode(TheCluster, sn.providerID) =>
            LET r == NodeUpdateFunc(TheCluster, sn, FALSE, lookup)
            IN /\ ~r.panics
               /\ \E k \in DOMAIN r.cluster.nodes :
                      r.cluster.nodes[k].node = sn

----------------------------------------------------------------------------
(* C22 *)

\* a sequence of characters that is a number: digits with at most one "."
IsNumber(t) ==
    /\ \E i \in 1..Len(t) : t[i] \in Digits
    /\ \A i \in 1..Len(t) : t[i] \in Digits \cup {"."}
    /\ Cardinality({i \in 1..Len(t) : t[i] = "."}) <= 1

\* the pattern of C22: s begins with <number>vCPU <number>GB
IsCapacity(s) ==
    \E p \in 1..Len(s) : \E q \in 1..Len(s) :
        /\ HasAt(s, p, VCPU)
        /\ IsNumber(SubSeq(s, 1, p - 1))
        /\ q >= p + Len(VCPU)
        /\ HasAt(s, q, GB)
        /\ IsNumber(SubSeq(s, p + Len(VCPU), q - 1))

\* C22: FargateCapacityProvisioned never fails; it returns found = false
\* when the annotation is absent or not of the form <number>vCPU <number>GB,
\* and found = true with the two numbers when it is: "0.25vCPU 0.5GB" gives
\* 0.25 and 0.5.
C22_FargateCapacityParses ==
    (fn.op = "FargateCapacityProvisioned" /\ fn.done) =>
        /\ ~fn.ret.panics
        /\ fn.ret.found <=> (fn.arg.present /\ IsCapacity(fn.arg.value))
        /\ fn.arg = [present |-> TRUE, value |-> QuarterHalf] =>
              /\ DecEq(fn.ret.cpu, Dec(25, 2))
              /\ DecEq(fn.ret.mem, Dec(5, 1))

----------------------------------------------------------------------------
(* C23 *)

\* Node.NumPods(): the size of the bound-pod map
NumPods(n) == Cardinality(DOMAIN n.pods)

\* C23: in every reachable state and for every node, the pod-count resource
\* of the node's usage total equals the number of pods bound to the node.
C23_PodCountEqualsNumPods ==
    \A n \in DOMAIN nodes : nodes[n].used["pods"] = NumPods(nodes[n])

\* a pod was bound, updated in place to other requests, and is still bound
C23_Witness ==
    /\ ops = 2
    /\ \E p \in PodInputs : \E q \in PodInputs :
          /\ p.phase = PodRunning /\ q.phase = PodRunning
          /\ p.nodeName = "n1" /\ q.nodeName = "n1"
          /\ p.containers # q.containers
          /\ TheCluster = PodUpdateFunc(AddPod(NewCluster, p, FALSE), q, FALSE)
          /\ NumPods(nodes["n1"]) = 1
          /\ nodes["n1"].used["pods"] = 1

----------------------------------------------------------------------------
(* C24 *)

\* the sequence q holds every element of S once
Lists(q, S) ==
    /\ Len(q) = Cardinality(S)
    /\ {q[i] : i \in 1..Len(q)} = S

----------------------------------------------------------------------------
(* C25 *)

\* the recognised capacity label/value pairs and the predicate of each
Recognised ==
    {<<"karpenter.sh/capacity-type", "on-demand", "IsOnDemand">>,
     <<"eks.amazonaws.com/capacityType", "ON_DEMAND", "IsOnDemand">>,
     <<"karpenter.sh/capacity-type", "spot", "IsSpot">>,
     <<"eks.amazonaws.com/capacityType", "SPOT", "IsSpot">>,
     <<"eks.amazonaws.com/compute-type", "fargate", "IsFargate">>,
     <<"eks.amazonaws.com/compute-type", "auto", "IsAuto">>}

\* the recognised pairs among the labels
RecognisedIn(labels) ==
    {r \in Recognised : <<r[1], r[2]>> \in labels}

----------------------------------------------------------------------------
(* C26 *)

\* the Ready conditions of a node
ReadyConditions(n) ==
    {i \in 1..Len(n.conditions) : n.conditions[i].type = "Ready"}

----------------------------------------------------------------------------
(* C27 *)

Reverse(q) == [i \in 1..Len(q) |-> q[Len(q) + 1 - i]]

----------------------------------------------------------------------------
(* C28 *)

\* C28: after a node-add notification has been processed, the node entity
\* stored in the cluster carries the price the pricing lookup produced for
\* that notification (the unknown sentinel when it found none), whether or
\* not an entity for that node, such as the placeholder of an earlier pod
\* notification, was already stored.
C28_AddedNodeCarriesLookedUpPrice ==
    \A sn \in NodeInputs : \A lookup \in Lookups :
        LET after == NodeAddFunc(TheCluster, sn, lookup)
        IN after.nodes[sn.name].Price = updatePrice(NewNode(sn), lookup).Price

----------------------------------------------------------------------------
(* C29 *)

\* C29: under every interleaving of the watches, the snapshot of a node
\* that was populated from a Node notification is never replaced by the
\* empty snapshot of a pod-triggered placeholder: no step puts the
\* placeholder snapshot on a stored node that carried another one.
C29_RealSnapshotNeverReplaced ==
    [][\A n \in DOMAIN nodes \cap DOMAIN nodes' :
           nodes[n].node # PlaceholderSnapshot(n)
               => nodes'[n].node # PlaceholderSnapshot(n)]_vars

----------------------------------------------------------------------------
(* C30 *)

\* goroutine g holds the mutex m for reading, or for writing
HoldsRead(g, m) == rw.mu[m].readers[g] > 0
HoldsWrite(g, m) == rw.mu[m].writer = g /\ Instr(g).do # "Lock"

\* C30: every read and write of the node map and the pod map, the lookup of
\* GetPod included, happens while c.mu is held in the matching mode, so no
\* read of a map can be under way together with a write by another
\* goroutine.
C30_MapAccessesLocked ==
    /\ \A g \in Goroutines :
          (InCall(g) /\ Instr(g).mu = "Cluster") =>
              /\ Instr(g).do = "read" =>
                    HoldsRead(g, "Cluster") \/ HoldsWrite(g, "Cluster")
              /\ Instr(g).do = "write" => HoldsWrite(g, "Cluster")
    /\ \A g, h \in Goroutines :
          (/\ g # h /\ InCall(g) /\ InCall(h)
           /\ Instr(g).mu = "Cluster" /\ Instr(h).mu = "Cluster") =>
              ~(Instr(g).do = "write" /\ Instr(h).do \in {"read", "write"})

----------------------------------------------------------------------------
(* C31 *)

\* C31: every read and write of a node's snapshot (its labels included),
\* bound-pod map, usage total and visibility happens while the node's own
\* lock is held in the matching mode, so the read of the labels or of the
\* bound-pod list by a price lookup is never under way together with the
\* write of BindPod or Update on the same node by another goroutine.
C31_NodeAccessesLocked ==
    /\ \A g \in Goroutines :
          (InCall(g) /\ Instr(g).mu = "Node") =>
              /\ Instr(g).do = "read" =>
                    HoldsRead(g, "Node") \/ HoldsWrite(g, "Node")
              /\ Instr(g).do = "write" => HoldsWrite(g, "Node")
    /\ \A g, h \in Goroutines :
          (/\ g # h /\ InCall(g) /\ InCall(h)
           /\ Instr(g).mu = "Node" /\ Instr(h).mu = "Node") =>
              ~(Instr(g).do = "write" /\ Instr(h).do \in {"read", "write"})

----------------------------------------------------------------------------
(* C32 *)

\* C32: in every state reached between operations, each pod of the bound-pod
\* map of a node of the node map is in the pod map and has that node as its
\* current target: no binding stays behind for a pod that was removed or
\* moved.
C32_BindingsFollowPodMap ==
    \A n \in DOMAIN nodes : \A k \in DOMAIN nodes[n].pods :
        /\ k \in DOMAIN pods
        /\ pods[k].nodeName = NodeName(nodes[n])

----------------------------------------------------------------------------
(* C33 *)

\* C33: for every node and every resource name, the cached usage total is
\* never negative in a reachable state, whatever sequence of AddPod,
\* in-place pod updates and DeletePod is applied.
C33_UsageNeverNegative ==
    \A n \in DOMAIN nodes : \A r \in Resources : nodes[n].used[r] >= 0

----------------------------------------------------------------------------
(* C34 *)

\* C34: a node created from a NodeClaim reports the claim's creation time
\* from Created() until the first call of Ready() that finds it Ready; from
\* then on Created() returns the creation timestamp of the Node object and
\* never the claim time again, also across later snapshot updates.
C34_ClaimTimeUntilReady ==
    \A k \in DOMAIN claimed :
        claimed[k].fromClaim =>
            CreatedOrClaimed(claimed[k]) =
                IF claimed[k].wentReady THEN CreatedAt ELSE ClaimCreatedAt

----------------------------------------------------------------------------
(* C35 *)

\* C35: in each pricing update cycle every callback that is registered when
\* the cycle begins is invoked exactly once, and only after the on-demand,
\* the spot and the Fargate fetch of the cycle have all finished, succeeded
\* or failed: no callback is called twice in a cycle or while a fetch runs,
\* and when updatePricing has returned each of them has been called once.
C35_CallbacksOncePerCycle ==
    /\ \A f \in DOMAIN pricing.calls :
          /\ pricing.calls[f] <= 1
          /\ pricing.calls[f] > 0 =>
                \A x \in Fetches : pricing.fetch[x] \in {"ok", "failed"}
    /\ (pricing.cycles > 0 /\ pricing.pc \in {"select", "done"}) =>
          \A j \in 1..Len(pricing.atStart) :
              pricing.calls[pricing.atStart[j]] = 1

\* the second cycle has returned: two callbacks were registered when it
\* began, a fetch failed, and each callback was called once
C35_Witness ==
    /\ pricing.cycles = 2 /\ pricing.pc = "select"
    /\ pricing.atStart = <<1, 2>>
    /\ pricing.fetch["spot"] = "failed" /\ pricing.fetch["fargate"] = "ok"
    /\ pricing.calls[1] = 1 /\ pricing.calls[2] = 1

----------------------------------------------------------------------------
(* C36 *)

\* C36: a callback registered with OnUpdate after NewPricingProvider has
\* returned is invoked when the initial pricing update completes, under
\* every interleaving of the registration with the goroutine: no caller is
\* inside OnUpdate while the goroutine ranges over the callback list, and
\* once the initial update has returned every registered callback has been
\* called.
C36_RegistrationSeenByInitialUpdate ==
    /\ ~(pricing.reg = "append" /\ pricing.pc = "notify")
    /\ (pricing.cycles = 1 /\ pricing.pc \in {"select", "done"}) =>
          \A j \in 1..Len(pricing.onUpdateFuncs) :
              pricing.calls[pricing.onUpdateFuncs[j]] = 1

----------------------------------------------------------------------------
(* C37 *)

\* C37: if either on-demand fetch (shared tenancy or bare metal) fails or
\* returns no prices, updateOnDemandPricing returns an error and leaves the
\* on-demand price table as it was; the table is replaced, by the prices of
\* the two fetches, only when both succeed with at least one price each.
C37_OnDemandTableReplacedOnlyOnSuccess ==
    \A onDemand \in FetchResults("m5.large") :
    \A onDemandMetal \in FetchResults("m5.metal") :
        LET r == updateOnDemandPricing(pricing.onDemandPrices,
                                       onDemand, onDemandMetal)
        IN IF \/ onDemand.err \/ onDemandMetal.err
              \/ DOMAIN onDemand.prices = {}
              \/ DOMAIN onDemandMetal.prices = {}
           THEN r.err /\ r.table = pricing.onDemandPrices
           ELSE /\ ~r.err
                /\ DOMAIN r.table = {"m5.large", "m5.metal"}
                /\ r.table["m5.large"] = onDemand.prices["m5.large"]
                /\ r.table["m5.metal"] = onDemandMetal.prices["m5.metal"]

\* the first cycle replaced the static table and the on-demand update of
\* the second cycle failed: the table of the first cycle is still there
C37_Witness ==
    /\ pricing.cycles = 2 /\ pricing.fetch["onDemand"] = "failed"
    /\ pricing.onDemandPrices # StaticPrices
    /\ DOMAIN pricing.onDemandPrices = {"m5.large", "m5.metal"}

----------------------------------------------------------------------------
(* C38 *)

\* C38: after the context is cancelled the pricing goroutine starts no
\* further update cycle: once cancelled, it never goes from its first
\* statement or from its select into updatePricing.
C38_NoCycleAfterCancel ==
    [][pricing.cancelled =>
          ~(pricing.pc \in {"start", "select"} /\ pricing'.pc = "fetching")]_vars

----------------------------------------------------------------------------
(* C39 *)

\* the number of nodes on the current page of the paginator
NodesOnPage(u) ==
    LET bounds == GetSliceBounds(u, u.numNodes)
    IN IF bounds.end > bounds.start THEN bounds.end - bounds.start ELSE 0

\* C39: after any sequence of key presses, window-size messages, ticks,
\* renders and changes of the visible node set, the cursor is at least 0 and
\* less than the number of nodes on the current page whenever that page is
\* not empty, and no Enter has indexed outside the current node list.
C39_CursorWithinPage ==
    /\ ~ui.panicked
    /\ NodesOnPage(ui) > 0 =>
          0 <= ui.cursor /\ ui.cursor < NodesOnPage(ui)

====
